---- MODULE Spec2Model ----
(***************************************************************************)
(* Model of the agentic job-search backend:                                *)
(*   - services/session_service.py : the in-memory Session Store           *)
(*   - services/analysis_service.py: analyze_stream / refine_stream, the   *)
(*     progress queue between the background pipeline task and the stream  *)
(*   - pipeline.py                 : the workflow graph built by           *)
(*     setup_pipeline and the event loops of analyze_resume /              *)
(*     refine_results                                                      *)
(*                                                                         *)
(* asyncio is cooperative: every action below is the code that runs        *)
(* between two suspension points of one coroutine, so the actions          *)
(* interleave but never overlap.                                           *)
(***************************************************************************)
EXTENDS Integers, Sequences, FiniteSets, TLC

VARIABLES
    sessions,        \* SessionService._sessions: session id -> Session
    now,             \* the wall clock read by time.time()
    lastOp,          \* the last Session Store call and what it returned
    kind,            \* the entry point: "analyze" or "refine"
    streamed,        \* whether the entry point is the streamed variant
    model_mode,      \* analyze_resume's model_mode argument
    resume_text,     \* the text to analyse
    num_roles,       \* number of roles calculate_yoe finds in the resume
    session_id,      \* the run's session id
    quiet,           \* the units of this run whose events carry no text
    levels,          \* the levels <<M, C, O>> the classifier and the two evaluators answer
    spc,             \* position of the stream generator
    out,             \* the records the stream has yielded, in order
    outcome,         \* what a non-streamed call returned or raised
    progress_queue,  \* asyncio.Queue between callback and stream
    task,            \* asyncio task running the pipeline
    events,          \* per running unit: runner events yielded so far
    completed,       \* units that have finished (output key written)
    state,           \* SharedState: the output keys written
    seen_agents,     \* analyze_resume / refine_results local seen_agents
    final_response,  \* analyze_resume / refine_results local final_response
    hadText,         \* history: units of which an event with text was yielded
    batch1_done_at,  \* history: the time at which scout batch 1 completed, kept
                     \* until every scout of batch 2 has started
    consensus_out,   \* the consensus unit's answer ({} until it has answered)
    called,          \* history: the progress_callback invocations, in order
    pipeline_initialized,   \* pipeline.py global _pipeline_initialized
    last_initialized_mode,  \* pipeline.py global _last_initialized_mode
    current_model_mode,     \* pipeline.py global _current_model_mode
    MODEL,                  \* pipeline.py globals MODEL_LITE / MODEL_FLASH / MODEL_PRO
    runner_models,          \* the models the agents of _runner were built with
    adk_sessions,           \* pipeline.py global _session_service: the shared
                            \* state (output keys written) of each ADK session
    today,             \* the date datetime.now() returns: <<year, month>>
    yoe_text,          \* calculate_yoe's argument: the date ranges and the
                       \* "N years" phrases of the text, in text order
    ypc,               \* position of the calculate_yoe call in progress
    current_year,      \* calculate_yoe local current_year
    current_month,     \* calculate_yoe local current_month
    all_months_worked, \* calculate_yoe local all_months_worked at its return
    summaries,         \* the summaries calculate_yoe has returned, in order
    job_urls,          \* check_job_urls local urls: the links found in job_output
    probe_results,     \* validate_urls_async: the dicts the probes have returned,
                       \* by position in urls
    validation_result, \* what validate_urls_async returned ({} until it has)
    check_result,      \* what check_job_urls returned ({} until it has)
    runs,              \* the calls in flight at the same time, by request: kind,
                       \* arguments, position, the runner object the call
                       \* iterates, the models its units have run with, its
                       \* error text and the answer of its endpoint
    runner_owner       \* the request whose setup_pipeline built the current
                       \* _runner / _refinement_runner / _session_service

storeVars == <<sessions, now, lastOp>>
runVars == <<kind, streamed, model_mode, resume_text, num_roles, session_id, quiet,
            levels>>
streamVars == <<spc, out, outcome, progress_queue>>
pipeVars == <<task, events, completed, state, seen_agents, final_response,
              hadText, called, batch1_done_at,
              consensus_out>>
globVars == <<pipeline_initialized, last_initialized_mode, current_model_mode,
              MODEL, runner_models, adk_sessions>>
yoeVars == <<today, yoe_text, ypc, current_year, current_month, all_months_worked,
             summaries>>
linkVars == <<job_urls, probe_results, validation_result, check_result>>
twoVars == <<runs, runner_owner>>
extVars == <<yoeVars, linkVars, twoVars>>
vars == <<storeVars, runVars, streamVars, pipeVars, globVars, extVars>>

None == "None"

\* ------------------------------------------------------------------ bounds

Ttl == 2
MaxNow == 3
MaxEvents == 2
MaxRoles == 6
MaxRanges == 2
MaxMonths == 2
MaxCalls == 2
MaxUrls == 3

\* ------------------------------------------------- session_service.py

SessionIds == {"s1", "s2"}
ResumeTexts == {"resumeA", "resumeB"}
Reports == {"report1", "report2"}
MetaKeys == {"k"}

Session(id, text, t) ==
    [session_id |-> id, resume_text |-> text, last_result |-> "",
     created_at |-> t, updated_at |-> t, metadata |-> {}]

\* mutant: the boundary age counts as expired
expired_inclusive(s, t) == t - s.created_at >= Ttl

\* mutant: a sliding lifetime, measured from the last update
expired_sliding(s, t) == t - s.updated_at > Ttl

expired(s, t) == t - s.created_at > Ttl

\* mutant: the sweep also removes the sessions whose age equals the TTL
cleanup_expired_eager(S, t) ==
    [i \in {j \in DOMAIN S : t - S[j].created_at < Ttl} |-> S[i]]

cleanup_expired(S, t) ==
    [i \in {j \in DOMAIN S : ~expired(S[j], t)} |-> S[i]]

\* mutant: create keeps a session that is already held under the id
create_if_absent(S, id, text, t) ==
    cleanup_expired(
        [i \in DOMAIN S \cup {id} |->
            IF i = id /\ id \notin DOMAIN S THEN Session(id, text, t) ELSE S[i]], t)

\* mutant: create does not sweep
create_no_sweep(S, id, text, t) ==
    [i \in DOMAIN S \cup {id} |->
        IF i = id THEN Session(id, text, t) ELSE S[i]]

create(S, id, text, t) ==
    cleanup_expired(
        [i \in DOMAIN S \cup {id} |->
            IF i = id THEN Session(id, text, t) ELSE S[i]], t)

\* mutant: get returns whatever is held, expired or not
get_result_present(S, id, t) == IF id \notin DOMAIN S THEN None ELSE id

\* get's return value: the id of the session returned (a reference to the
\* stored object), or None
get_result(S, id, t) ==
    IF id \notin DOMAIN S THEN None
    ELSE IF expired(S[id], t) THEN None
    ELSE id

\* get's effect on _sessions
get(S, id, t) ==
    IF id \notin DOMAIN S THEN S
    ELSE IF expired(S[id], t) THEN [i \in DOMAIN S \ {id} |-> S[i]]
    ELSE S

update_result(S, id, t) == get_result(S, id, t)

\* mutant: update creates the session when it is not valid
update_upsert(S, id, result, metadata, t) ==
    [i \in DOMAIN S \cup {id} |->
        IF i # id THEN S[i]
        ELSE IF get_result(S, id, t) = None
             THEN [Session(id, "", t) EXCEPT !.last_result = result]
             ELSE [S[i] EXCEPT !.last_result = result, !.updated_at = t]]

update(S, id, result, metadata, t) ==
    LET S1 == get(S, id, t) IN
    IF get_result(S, id, t) = None THEN S1
    ELSE [S1 EXCEPT ![id] =
            [@ EXCEPT !.last_result = result,
                      !.updated_at = t,
                      !.metadata = IF metadata # {} THEN @ \cup metadata ELSE @]]

delete_result(S, id) == id \in DOMAIN S

delete(S, id) ==
    IF id \in DOMAIN S THEN [i \in DOMAIN S \ {id} |-> S[i]] ELSE S

\* The record of a Session Store call: the operation, its id, what it
\* returned and the session held under the id when the call began
Held(S, id) == IF id \in DOMAIN S THEN {S[id]} ELSE {}

OpRecord(op, id, ret, S) == [op |-> op, id |-> id, ret |-> ret, prev |-> Held(S, id)]

NoOp(op) == [op |-> op, id |-> None, ret |-> None, prev |-> {}]

\* ---------------------------------------------------------- pipeline.py

Modes == {"fast", "standard", "deep"}

MODEL_CONFIGS ==
    [fast |-> [lite |-> "gemini-2.5-flash-lite", flash |-> "gemini-2.5-flash",
               pro |-> "gemini-3-flash-preview"],
     standard |-> [lite |-> "gemini-3-flash-preview",
                   flash |-> "gemini-3-flash-preview",
                   pro |-> "gemini-3-flash-preview"],
     deep |-> [lite |-> "gemini-3-flash-preview",
               flash |-> "gemini-3-flash-preview",
               pro |-> "gemini-3-pro-preview"]]

get_models(mode) ==
    IF mode \in DOMAIN MODEL_CONFIGS THEN MODEL_CONFIGS[mode]
    ELSE MODEL_CONFIGS["standard"]

\* Rate limit configuration: seconds between batches (no statement of the
\* module reads it)
STAGGER_DELAY == 2

\* module-level defaults MODEL_LITE, MODEL_FLASH, MODEL_PRO
DEFAULT_MODEL ==
    [lite |-> "gemini-3-flash-preview", flash |-> "gemini-3-flash-preview",
     pro |-> "gemini-3-flash-preview"]

mode_labels(mode) ==
    CASE mode = "fast" -> "Fast"
      [] mode = "standard" -> "Standard"
      [] mode = "deep" -> "Deep"
      [] OTHER -> "Standard"

\* The process after startup: AnalysisService.initialize has run setup_pipeline
\* once, with the module-level default models.
Started ==
    /\ pipeline_initialized = TRUE
    /\ last_initialized_mode = None
    /\ current_model_mode = "standard"
    /\ MODEL = DEFAULT_MODEL
    /\ runner_models = DEFAULT_MODEL

\* CONSENSUS_INSTRUCTION: the rule the consensus agent is instructed to
\* apply to the three levels. Levels are on the 1-10 scale; the weights are
\* the percentages of the instruction.
MaxLevel == 10
W_MOST_LIKELY == 50
W_CONSERVATIVE == 25
W_OPTIMISTIC == 25

Levels == 1..MaxLevel

\* mutant: the three levels each counted in full
weighted_unnormalised(M, C, O) == 100 * M + 100 * C + 100 * O

\* M*0.5 + C*0.25 + O*0.25, in hundredths
weighted(M, C, O) == W_MOST_LIKELY * M + W_CONSERVATIVE * C + W_OPTIMISTIC * O

\* round(x): the nearest integer; the instruction does not say which way a
\* half goes, so both neighbours are possible answers
Rounded(x100) ==
    {k \in 0..(3 * MaxLevel) : 100 * k - x100 <= 50 /\ x100 - 100 * k <= 50}

\* mutant: agreement counted against the Most Likely level only
AgreementWithMostLikely(M, C, O) ==
    IF M = C /\ M = O THEN 3 ELSE IF M = C \/ M = O THEN 2 ELSE 1

\* "3/3 agents", "2/3 agents", "1/3 agents": how many of the three agree
Agreement(M, C, O) ==
    IF M = C /\ C = O THEN 3 ELSE IF M = C \/ C = O \/ M = O THEN 2 ELSE 1

\* If all 3 agree: High; if 2 agree: Medium; if all differ: Low
confidence_label(M, C, O) ==
    CASE Agreement(M, C, O) = 3 -> "High"
      [] Agreement(M, C, O) = 2 -> "Medium"
      [] OTHER -> "Low"

\* The answers the instruction allows for the levels l = <<M, C, O>>
Verdicts(l) ==
    {[weighted |-> weighted(l[1], l[2], l[3]),
      final_level |-> r,
      confidence_label |-> confidence_label(l[1], l[2], l[3]),
      agreement |-> Agreement(l[1], l[2], l[3])] :
        r \in Rounded(weighted(l[1], l[2], l[3]))}

\* The workflow graph of setup_pipeline. A ParallelAgent is the set of its
\* sub-agents, a SequentialAgent the sequence of its stages.
deliberation_agents == {"conservative_evaluator", "optimistic_evaluator"}
parallel_batch_1 == {"exact_match_scout", "level_up_scout"}
parallel_batch_2 == {"stretch_scout", "trajectory_scout"}
batched_job_scouts == <<parallel_batch_1, parallel_batch_2>>

\* mutant: the consensus agent placed inside the deliberation group
orchestrator_no_barrier ==
    <<{"resume_parser"}, {"level_classifier"},
      deliberation_agents \cup {"consensus"}>> \o batched_job_scouts \o
    <<{"url_validator"}, {"formatter"}>>

orchestrator ==
    <<{"resume_parser"}, {"level_classifier"}, deliberation_agents,
      {"consensus"}>> \o batched_job_scouts \o
    <<{"url_validator"}, {"formatter"}>>

parallel_batch_1_ref == {"exact_match_scout_ref", "level_up_scout_ref"}
parallel_batch_2_ref == {"stretch_scout_ref", "trajectory_scout_ref"}
batched_job_scouts_ref == <<parallel_batch_1_ref, parallel_batch_2_ref>>

refinement_pipeline ==
    batched_job_scouts_ref \o <<{"url_validator_ref"}, {"formatter_refinement"}>>

output_key(u) ==
    CASE u = "resume_parser" -> "parsed_resume"
      [] u = "level_classifier" -> "initial_level"
      [] u = "conservative_evaluator" -> "conservative_assessment"
      [] u = "optimistic_evaluator" -> "optimistic_assessment"
      [] u = "consensus" -> "calibrated_level"
      [] u \in {"exact_match_scout", "exact_match_scout_ref"} -> "exact_match_job"
      [] u \in {"level_up_scout", "level_up_scout_ref"} -> "level_up_job"
      [] u \in {"stretch_scout", "stretch_scout_ref"} -> "stretch_job"
      [] u \in {"trajectory_scout", "trajectory_scout_ref"} -> "trajectory_job"
      [] u \in {"url_validator", "url_validator_ref"} -> "validated_jobs"
      [] u \in {"formatter", "formatter_refinement"} -> "formatted_output"

\* agent_labels.get(agent_name, "robot " + agent_name) of analyze_resume and
\* refine_results (each table knows only its own pipeline's agents)
agent_labels(k, u) ==
    LET own == IF k = "analyze" THEN
                   {"resume_parser", "level_classifier", "conservative_evaluator",
                    "optimistic_evaluator", "consensus", "exact_match_scout",
                    "level_up_scout", "stretch_scout", "trajectory_scout",
                    "url_validator", "formatter"}
               ELSE {"exact_match_scout_ref", "level_up_scout_ref",
                     "stretch_scout_ref", "trajectory_scout_ref",
                     "url_validator_ref", "formatter_refinement"}
    IN  IF u \notin own THEN <<"robot", u>>
        ELSE CASE u = "resume_parser" -> "Resume Parser"
               [] u = "level_classifier" -> "Level Classifier"
               [] u = "conservative_evaluator" -> "Conservative Evaluator"
               [] u = "optimistic_evaluator" -> "Optimistic Evaluator"
               [] u = "consensus" -> "Consensus Agent"
               [] u \in {"exact_match_scout", "exact_match_scout_ref"} ->
                     "Exact Match Scout"
               [] u \in {"level_up_scout", "level_up_scout_ref"} -> "Level Up Scout"
               [] u \in {"stretch_scout", "stretch_scout_ref"} -> "Stretch Scout"
               [] u \in {"trajectory_scout", "trajectory_scout_ref"} ->
                     "Trajectory Scout"
               [] u \in {"url_validator", "url_validator_ref"} -> "URL Validator"
               [] u \in {"formatter", "formatter_refinement"} -> "Formatter"

\* The agent tree the run's Runner was built around
\* the two scout batches of the pipeline the call runs
Batch1 == IF kind = "refine" THEN parallel_batch_1_ref ELSE parallel_batch_1

Batch2 == IF kind = "refine" THEN parallel_batch_2_ref ELSE parallel_batch_2

Graph == IF kind = "refine" THEN refinement_pipeline ELSE orchestrator

StageUnits(G) == UNION {G[i] : i \in 1..Len(G)}

Units == StageUnits(Graph)

Min(a, b) == IF a <= b THEN a ELSE b

\* ------------------------------------------- pipeline.py custom tools
\* calculate_yoe. The text is the sequence of the date ranges the two
\* patterns can match in it. A range written with month names has sname,
\* syear and, unless it ends in "Present", ename, eyear; a numeric range has
\* smon, the digits of its start year (syear, slen of them) and, unless it
\* ends in "Present", emon and eyear (elen digits).

months_map ==
    [january |-> 1, jan |-> 1, february |-> 2, feb |-> 2, march |-> 3, mar |-> 3,
     april |-> 4, apr |-> 4, may |-> 5, june |-> 6, jun |-> 6, july |-> 7,
     jul |-> 7, august |-> 8, aug |-> 8, september |-> 9, sept |-> 9, sep |-> 9,
     october |-> 10, oct |-> 10, november |-> 11, nov |-> 11, december |-> 12,
     dec |-> 12]

\* str.lower() on the month names the texts below use
lower(name) ==
    CASE name \in {"Jan", "jan", "JAN"} -> "jan"
      [] name = "Jun" -> "jun"
      [] name = "Sept" -> "sept"
      [] name = "Nov" -> "nov"
      [] name = "Dec" -> "dec"
      [] name = "December" -> "december"
      [] name = "Feb" -> "feb"
      [] OTHER -> name

TextRange(sn, sy, en, ey) ==
    [fmt |-> "text", sname |-> sn, smon |-> 0, syear |-> sy, slen |-> 4,
     present |-> FALSE, ename |-> en, emon |-> 0, eyear |-> ey, elen |-> 4]

TextPresent(sn, sy) ==
    [fmt |-> "text", sname |-> sn, smon |-> 0, syear |-> sy, slen |-> 4,
     present |-> TRUE, ename |-> "", emon |-> 0, eyear |-> 0, elen |-> 0]

NumericRange(sm, sy, sl, em, ey, el) ==
    [fmt |-> "numeric", sname |-> "", smon |-> sm, syear |-> sy, slen |-> sl,
     present |-> FALSE, ename |-> "", emon |-> em, eyear |-> ey, elen |-> el]

NumericPresent(sm, sy, sl) ==
    [fmt |-> "numeric", sname |-> "", smon |-> sm, syear |-> sy, slen |-> sl,
     present |-> TRUE, ename |-> "", emon |-> 0, eyear |-> 0, elen |-> 0]

\* The date ranges of the texts: "Jan 2018 - December 2020",
\* "Jun 2019 - Present", "Dec 2020 - Feb 2021", "jan 2018 - JAN 2018",
\* "Sept 2020 - Nov 2020", "06/19 - 12/20", "13/2019 - 1/2020",
\* "2/2021 - Present"
DateRanges ==
    {TextRange("Jan", 2018, "December", 2020),
     TextPresent("Jun", 2019),
     TextRange("Dec", 2020, "Feb", 2021),
     TextRange("jan", 2018, "JAN", 2018),
     TextRange("Sept", 2020, "Nov", 2020),
     NumericRange(6, 19, 2, 12, 20, 2),
     NumericRange(13, 2019, 4, 1, 2020, 4),
     NumericPresent(2, 2021, 4)}

\* int(year_raw), with 2000 added to a two-digit year
year_of(raw, len) == IF len = 2 THEN 2000 + raw ELSE raw

\* mutant: only a negative duration is discarded
ParseRangeNonNegative(r, cy, cm) ==
    LET sm == IF r.fmt = "text" THEN months_map[lower(r.sname)] ELSE r.smon
        sy == IF r.fmt = "text" THEN r.syear ELSE year_of(r.syear, r.slen)
        em == IF r.present THEN cm
              ELSE IF r.fmt = "text" THEN months_map[lower(r.ename)] ELSE r.emon
        ey == IF r.present THEN cy
              ELSE IF r.fmt = "text" THEN r.eyear ELSE year_of(r.eyear, r.elen)
        months_ok == r.fmt = "numeric" =>
                        /\ sm >= 1 /\ sm <= 12
                        /\ r.present \/ (em >= 1 /\ em <= 12)
        d == (ey - sy) * 12 + (em - sm)
    IN  [sm |-> sm, sy |-> sy, em |-> em, ey |-> ey, duration_months |-> d,
         accepted |-> months_ok /\ d >= 0]

\* One match of a pattern, up to the "continue" statements: the start and
\* the end the loop body computes, and whether the body goes on to add the
\* role (valid months, positive duration)
ParseRange(r, cy, cm) ==
    LET sm == IF r.fmt = "text" THEN months_map[lower(r.sname)] ELSE r.smon
        sy == IF r.fmt = "text" THEN r.syear ELSE year_of(r.syear, r.slen)
        em == IF r.present THEN cm
              ELSE IF r.fmt = "text" THEN months_map[lower(r.ename)] ELSE r.emon
        ey == IF r.present THEN cy
              ELSE IF r.fmt = "text" THEN r.eyear ELSE year_of(r.eyear, r.elen)
        months_ok == r.fmt = "numeric" =>
                        /\ sm >= 1 /\ sm <= 12
                        /\ r.present \/ (em >= 1 /\ em <= 12)
        d == (ey - sy) * 12 + (em - sm)
    IN  [sm |-> sm, sy |-> sy, em |-> em, ey |-> ey, duration_months |-> d,
         accepted |-> months_ok /\ d > 0]

\* mutant: the end month is not covered
months_of_exclusive(p) ==
    {<<y, m>> \in (p.sy..p.ey) \X (1..12) :
        ~((y = p.sy /\ m < p.sm) \/ (y = p.ey /\ m >= p.em))}

\* the pairs the two nested loops add to all_months_worked for one role
months_of(p) ==
    {<<y, m>> \in (p.sy..p.ey) \X (1..12) :
        ~((y = p.sy /\ m < p.sm) \/ (y = p.ey /\ m > p.em))}

\* round(num / den, 1) in tenths: the nearest tenth, an exact half going to
\* the even tenth
round1(num, den) ==
    LET q == (10 * num) \div den
        r == (10 * num) % den
    IN  IF 2 * r < den THEN q
        ELSE IF 2 * r > den THEN q + 1
        ELSE IF q % 2 = 0 THEN q ELSE q + 1

\* mutant: the reported duration counts the end month
RoleInclusive(r, p) ==
    [start |-> IF r.fmt = "text" THEN <<r.sname, p.sy>> ELSE <<"mm", p.sm, p.sy>>,
     end |-> IF r.present THEN <<"Present">>
             ELSE IF r.fmt = "text" THEN <<r.ename, r.eyear>>
             ELSE <<"mm", p.em, r.eyear>>,
     duration_months |-> p.duration_months + 1,
     duration_years |-> round1(p.duration_months + 1, 12)]

\* the role record appended for an accepted range
Role(r, p) ==
    [start |-> IF r.fmt = "text" THEN <<r.sname, p.sy>> ELSE <<"mm", p.sm, p.sy>>,
     end |-> IF r.present THEN <<"Present">>
             ELSE IF r.fmt = "text" THEN <<r.ename, r.eyear>>
             ELSE <<"mm", p.em, r.eyear>>,
     duration_months |-> p.duration_months,
     duration_years |-> round1(p.duration_months, 12)]

\* the matches of the month-name pattern, then those of the numeric pattern
Matches(ranges) ==
    SelectSeq(ranges, LAMBDA r : r.fmt = "text") \o
    SelectSeq(ranges, LAMBDA r : r.fmt = "numeric")

RECURSIVE Roles(_, _, _)
Roles(ms, cy, cm) ==
    IF ms = <<>> THEN <<>>
    ELSE LET p == ParseRange(Head(ms), cy, cm) IN
         (IF p.accepted THEN <<Role(Head(ms), p)>> ELSE <<>>) \o Roles(Tail(ms), cy, cm)

AllMonthsWorked(ranges, cy, cm) ==
    UNION {months_of(ParseRange(ranges[i], cy, cm)) :
             i \in {j \in DOMAIN ranges : ParseRange(ranges[j], cy, cm).accepted}}

RECURSIVE SumDurations(_)
SumDurations(roles) ==
    IF roles = <<>> THEN 0 ELSE Head(roles).duration_months + SumDurations(Tail(roles))

Before(a, b) == a[1] < b[1] \/ (a[1] = b[1] /\ a[2] <= b[2])

Earliest(S) == CHOOSE a \in S : \A b \in S : Before(a, b)

Latest(S) == CHOOSE a \in S : \A b \in S : Before(b, a)

Max(S) == CHOOSE a \in S : \A b \in S : b <= a

\* the dict calculate_yoe returns, with current_year cy and current_month cm
\* (tenths for the figures rounded to one decimal; an empty set for None and
\* for "Unknown"; the note repeats total_yoe, num_roles and stated_yoe)
calculate_yoe(text, cy, cm) ==
    LET roles == Roles(Matches(text.ranges), cy, cm)
        months == AllMonthsWorked(text.ranges, cy, cm)
    IN  [total_yoe |-> round1(Cardinality(months), 12),
         stated_yoe |-> IF text.years = {} THEN {} ELSE {Max(text.years)},
         calculation_method |-> "date_parsing_deduped",
         career_span |-> IF months = {} THEN {}
                         ELSE {<<Earliest(months)[1], Latest(months)[1]>>},
         num_roles |-> Len(roles),
         avg_tenure_years |-> IF roles = <<>> THEN 0
                              ELSE round1(SumDurations(roles), Len(roles) * 12),
         role_breakdown |-> SubSeq(roles, 1, Min(Len(roles), 10))]

\* check_job_urls / validate_urls_async / validate_url_async. A probe is
\* the HEAD request of validate_url_async; it ends with a status or raises.
Statuses == {200, 404}
ProbeErrors == {"TimeoutError", "ClientConnectorError"}

\* what validate_url_async returns when the response has the given status
probe_status(url, status) ==
    [url |-> url, status |-> {status}, valid |-> status = 200, error |-> None]

\* what validate_url_async returns when the request raises e
probe_error(url, e) ==
    [url |-> url, status |-> {}, valid |-> FALSE, error |-> e]

ProbeOutcomes(url) ==
    {probe_status(url, st) : st \in Statuses} \cup {probe_error(url, e) : e \in ProbeErrors}

\* mutant: every response counts as valid, only a raised error as invalid
validate_urls_any_status(urls, results) ==
    LET bad == SelectSeq(results, LAMBDA r : r.status = {}) IN
    [total_urls |-> Len(urls),
     valid_count |-> Len(urls) - Len(bad),
     invalid_count |-> Len(bad),
     all_valid |-> Len(bad) = 0,
     invalid_urls |-> [i \in DOMAIN bad |-> bad[i].url],
     results |-> results]

\* what validate_urls_async returns for the gathered results
validate_urls_async(urls, results) ==
    LET valid_count == Len(SelectSeq(results, LAMBDA r : r.valid))
        bad == SelectSeq(results, LAMBDA r : ~r.valid)
    IN  [total_urls |-> Len(urls),
         valid_count |-> valid_count,
         invalid_count |-> Len(urls) - valid_count,
         all_valid |-> valid_count = Len(urls),
         invalid_urls |-> [i \in DOMAIN bad |-> bad[i].url],
         results |-> results]

\* mutant: no link counts as every link being valid
NoUrlsFoundExits ==
    [all_valid |-> TRUE, feedback |-> <<"SUCCESS">>, should_exit |-> TRUE,
     valid_urls |-> <<>>, invalid_urls |-> <<>>]

\* what check_job_urls returns when it found no link
NoUrlsFound ==
    [all_valid |-> FALSE, feedback |-> <<"No URLs found.">>, should_exit |-> FALSE,
     valid_urls |-> <<>>, invalid_urls |-> <<>>]

\* what check_job_urls returns after the validation (a key the dict lacks
\* is an empty list here)
check_job_urls(urls, v) ==
    IF v.all_valid
    THEN [all_valid |-> TRUE, feedback |-> <<"SUCCESS">>, should_exit |-> TRUE,
          valid_urls |-> urls, invalid_urls |-> <<>>]
    ELSE [all_valid |-> FALSE,
          feedback |-> <<"URL VALIDATION FAILED", Len(v.invalid_urls)>>,
          should_exit |-> FALSE,
          valid_urls |-> <<>>, invalid_urls |-> v.invalid_urls]

\* no call of a tool in progress
YoeIdle ==
    /\ today = <<0, 0>> /\ yoe_text = [ranges |-> <<>>, years |-> {}]
    /\ ypc = "idle" /\ current_year = 0 /\ current_month = 0
    /\ all_months_worked = {} /\ summaries = <<>>

LinksIdle ==
    /\ job_urls = <<>> /\ probe_results = <<>>
    /\ validation_result = {} /\ check_result = {}

\* no calls in flight at the same time
TwoIdle == runs = <<>> /\ runner_owner = 0

ToolsIdle == YoeIdle /\ LinksIdle /\ TwoIdle

\* ----------------------------------------- Session Store specification
\* The Session Store driven by arbitrary calls while the clock advances.

NoRun ==
    /\ kind = "none" /\ streamed = FALSE /\ model_mode = "standard"
    /\ resume_text = None /\ num_roles = 0
    /\ session_id = None /\ quiet = {} /\ levels = <<>>
    /\ spc = "idle" /\ out = <<>> /\ outcome = <<>> /\ progress_queue = <<>>
    /\ task = "none" /\ events = <<>> /\ completed = {} /\ state = {}
    /\ seen_agents = {} /\ final_response = None
    /\ hadText = {} /\ called = <<>> /\ batch1_done_at = {} /\ consensus_out = {}
    /\ Started
    /\ adk_sessions = <<>>

InitStore ==
    /\ sessions = <<>>
    /\ now = 0
    /\ lastOp = NoOp("init")
    /\ NoRun
    /\ ToolsIdle

Create(id, text) ==
    /\ sessions' = create(sessions, id, text, now)
    /\ lastOp' = OpRecord("create", id, id, sessions)
    /\ UNCHANGED <<now, runVars, streamVars, pipeVars, globVars, extVars>>

Get(id) ==
    /\ sessions' = get(sessions, id, now)
    /\ lastOp' = OpRecord("get", id, get_result(sessions, id, now), sessions)
    /\ UNCHANGED <<now, runVars, streamVars, pipeVars, globVars, extVars>>

Update(id, result, metadata) ==
    /\ sessions' = update(sessions, id, result, metadata, now)
    /\ lastOp' = OpRecord("update", id, update_result(sessions, id, now), sessions)
    /\ UNCHANGED <<now, runVars, streamVars, pipeVars, globVars, extVars>>

Delete(id) ==
    /\ sessions' = delete(sessions, id)
    /\ lastOp' = OpRecord("delete", id, delete_result(sessions, id), sessions)
    /\ UNCHANGED <<now, runVars, streamVars, pipeVars, globVars, extVars>>

Tick ==
    /\ now < MaxNow
    /\ now' = now + 1
    /\ lastOp' = NoOp("tick")
    /\ UNCHANGED <<sessions, runVars, streamVars, pipeVars, globVars, extVars>>

NextStore ==
    \/ \E id \in SessionIds, text \in ResumeTexts : Create(id, text)
    \/ \E id \in SessionIds : Get(id)
    \/ \E id \in SessionIds, r \in Reports, m \in SUBSET MetaKeys :
          Update(id, r, m)
    \/ \E id \in SessionIds : Delete(id)
    \/ Tick

SpecStore == InitStore /\ [][NextStore]_vars

\* ------------------------------------------------------------ one run
\* analysis_service.py analyze / refine / analyze_stream / refine_stream
\* driving pipeline.py analyze_resume / refine_results. The streamed variants
\* run the pipeline in a background task and forward its progress.

NO_RESPONSE == "No response received from agent."

Progress(a, m) == [type |-> "progress", agent |-> a, message |-> m]

\* progress_callback of analyze_stream / refine_stream: put_nowait on an
\* unbounded asyncio.Queue (QueueFull is never raised)
\* mutant: a queue of capacity 1, QueueFull swallowed
progress_callback_bounded(q, a, m) ==
    IF Len(q) >= 1 THEN q ELSE Append(q, Progress(a, m))

progress_callback(q, a, m) == Append(q, Progress(a, m))

\* text[:150].replace(newline, space).strip() plus "..." : the text itself is
\* abstract, its preview is the token "preview"
Preview == "preview"

\* The prior analysis whose session a refinement addresses
PriorSession ==
    [Session("s1", "resumeA", 0) EXCEPT !.last_result = "report1"]

\* The inputs of a full analysis: streamed or not, mode, number of roles in
\* the resume, what the Session Store holds when the request arrives
\* (nothing; the prior session, still valid; the prior session, expired) and
\* which units answer without text (none, one of a parallel group, the last
\* one, all of them). analyze passes no mode: analyze_resume defaults it.
AnalyzeInputs ==
    {<<FALSE, "fast", 0, "empty", {"formatter"}>>,
     <<TRUE, "standard", 2, "expired", {"optimistic_evaluator"}>>,
     <<TRUE, "deep", MaxRoles, "expired", {}>>,
     <<TRUE, "standard", 1, "valid", StageUnits(orchestrator)>>,
     <<FALSE, "standard", 1, "valid", {}>>,
     <<FALSE, "standard", 0, "expired", StageUnits(orchestrator)>>}

\* The inputs of a refinement: streamed or not, the store, the quiet units
RefineInputs ==
    {<<TRUE, "empty", {}>>, <<TRUE, "expired", {}>>, <<TRUE, "valid", {}>>,
     <<TRUE, "valid", {"level_up_scout_ref"}>>,
     <<TRUE, "valid", {"formatter_refinement"}>>,
     <<TRUE, "valid", StageUnits(refinement_pipeline)>>,
     <<FALSE, "empty", {}>>, <<FALSE, "expired", {}>>, <<FALSE, "valid", {}>>,
     <<FALSE, "valid", StageUnits(refinement_pipeline)>>}

StoreAt(scenario) ==
    /\ sessions = (IF scenario = "empty" THEN <<>>
                   ELSE [i \in {"s1"} |-> PriorSession])
    /\ now = (IF scenario = "expired" THEN Ttl + 1 ELSE Ttl)
    /\ lastOp = NoOp("init")

\* InMemorySessionService.create_session: a new session with empty state;
\* for an id already held it raises, which the callers swallow
create_session(A, id) ==
    IF id \in DOMAIN A THEN A ELSE [i \in DOMAIN A \cup {id} |-> IF i = id THEN {} ELSE A[i]]

\* The pipeline module when the request arrives: as startup left it when no
\* analysis has run; otherwise as the analysis that stored the prior session
\* (in standard mode) left it, its shared state held by _session_service
ProcessAt(scenario) ==
    IF scenario = "empty"
    THEN Started /\ adk_sessions = <<>>
    ELSE /\ pipeline_initialized = TRUE
         /\ last_initialized_mode = "standard"
         /\ current_model_mode = "standard"
         /\ MODEL = get_models("standard")
         /\ runner_models = get_models("standard")
         /\ adk_sessions = [i \in {"s1"} |-> {output_key(u) : u \in StageUnits(orchestrator)}]

InitRunWith(analyzeInputs, refineInputs) ==
    /\ \/ /\ kind = "analyze"
          /\ session_id = "s2"
          /\ resume_text = "resumeB"
          /\ \E in \in analyzeInputs :
                /\ streamed = in[1]
                /\ model_mode = in[2]
                /\ num_roles = in[3]
                /\ StoreAt(in[4])
                /\ ProcessAt(in[4])
                /\ quiet = in[5]
                /\ levels = <<8, 6, 6>>
       \/ /\ kind = "refine"
          /\ session_id = "s1"
          /\ resume_text = None
          /\ model_mode = "standard"
          /\ num_roles = 0
          /\ \E in \in refineInputs :
                /\ streamed = in[1]
                /\ StoreAt(in[2])
                /\ ProcessAt(in[2])
                /\ quiet = in[3]
                /\ levels = <<>>
    /\ spc = "start" /\ out = <<>> /\ outcome = <<>> /\ progress_queue = <<>>
    /\ task = "none"
    /\ events = [u \in Units |-> 0]
    /\ completed = {}
    /\ state = {}
    /\ seen_agents = {} /\ final_response = NO_RESPONSE
    /\ hadText = {} /\ called = <<>> /\ batch1_done_at = {} /\ consensus_out = {}
    /\ ToolsIdle

InitRun == InitRunWith(AnalyzeInputs, RefineInputs)

TaskDone == task \in {"returned", "raised"}

\* mutant: the session is created and the report is not stored in it
StoreResultCreateOnly(S) ==
    IF kind = "analyze" THEN create(S, session_id, resume_text, now) ELSE S

\* What a successful run stores: analyze / analyze_stream create the session
\* and update it with the report; refine / refine_stream update it
StoreResult(S) ==
    IF kind = "analyze"
    THEN update(create(S, session_id, resume_text, now),
                session_id, final_response, {}, now)
    ELSE update(S, session_id, final_response, {}, now)

StoreResultOp ==
    LET S1 == IF kind = "analyze" THEN create(sessions, session_id, resume_text, now)
              ELSE sessions
    IN  OpRecord("update", session_id, update_result(S1, session_id, now), S1)

\* mutant: analyze_stream creates the session before it announces the id
StreamOpenCreates ==
    /\ spc = "start"
    /\ streamed
    /\ IF kind = "analyze"
       THEN /\ out' = Append(out, [type |-> "progress", agent |-> "system",
                                   message |-> <<"starting", mode_labels(model_mode)>>,
                                   session_id |-> session_id])
            /\ spc' = "opened"
            /\ sessions' = create(sessions, session_id, resume_text, now)
            /\ lastOp' = OpRecord("create", session_id, session_id, sessions)
       ELSE /\ sessions' = get(sessions, session_id, now)
            /\ lastOp' = OpRecord("get", session_id,
                                   get_result(sessions, session_id, now), sessions)
            /\ IF get_result(sessions, session_id, now) = None
               THEN /\ out' = Append(out, [type |-> "error",
                                           message |-> "Session not found or expired"])
                    /\ spc' = "done"
               ELSE /\ out' = Append(out, Progress("system", <<"refining", "feedback">>))
                    /\ spc' = "opened"
    /\ UNCHANGED <<now, runVars, outcome, progress_queue, pipeVars, globVars, extVars>>

\* analyze_stream up to its first yield (the "system" record carrying the
\* session id); refine_stream up to its first yield (the session check, then
\* either the session-not-found error record or the "system" record)
StreamOpen ==
    /\ spc = "start"
    /\ streamed
    /\ IF kind = "analyze"
       THEN /\ out' = Append(out, [type |-> "progress", agent |-> "system",
                                   message |-> <<"starting", mode_labels(model_mode)>>,
                                   session_id |-> session_id])
            /\ spc' = "opened"
            /\ UNCHANGED <<sessions, lastOp>>
       ELSE /\ sessions' = get(sessions, session_id, now)
            /\ lastOp' = OpRecord("get", session_id,
                                   get_result(sessions, session_id, now), sessions)
            /\ IF get_result(sessions, session_id, now) = None
               THEN /\ out' = Append(out, [type |-> "error",
                                           message |-> "Session not found or expired"])
                    /\ spc' = "done"
               ELSE /\ out' = Append(out, Progress("system", <<"refining", "feedback">>))
                    /\ spc' = "opened"
    /\ UNCHANGED <<now, runVars, outcome, progress_queue, pipeVars, globVars, extVars>>

\* asyncio.create_task(run_pipeline()), then the first loop test
StreamSpawn ==
    /\ spc = "opened"
    /\ task' = "created"
    /\ spc' = "polling"
    /\ UNCHANGED <<storeVars, runVars, out, outcome, progress_queue, events,
                   completed, state, seen_agents, final_response, hadText, batch1_done_at, consensus_out, called,
                   globVars, extVars>>

\* while not pipeline_task.done(): enter wait_for(progress_queue.get(), 0.1)
PollWait ==
    /\ spc = "polling"
    /\ ~TaskDone
    /\ spc' = "waiting"
    /\ UNCHANGED <<storeVars, runVars, out, outcome, progress_queue, pipeVars,
                   globVars, extVars>>

\* mutant: the poll takes the newest item of the queue
PollGetNewest ==
    /\ spc = "waiting"
    /\ progress_queue # <<>>
    /\ out' = Append(out, progress_queue[Len(progress_queue)])
    /\ progress_queue' = SubSeq(progress_queue, 1, Len(progress_queue) - 1)
    /\ spc' = "polling"
    /\ UNCHANGED <<storeVars, runVars, outcome, pipeVars, globVars, extVars>>

\* wait_for returns an item: yield it as a progress record
PollGet ==
    /\ spc = "waiting"
    /\ progress_queue # <<>>
    /\ out' = Append(out, Head(progress_queue))
    /\ progress_queue' = Tail(progress_queue)
    /\ spc' = "polling"
    /\ UNCHANGED <<storeVars, runVars, outcome, pipeVars, globVars, extVars>>

\* wait_for times out: continue
PollTimeout ==
    /\ spc = "waiting"
    /\ spc' = "polling"
    /\ UNCHANGED <<storeVars, runVars, out, outcome, progress_queue, pipeVars,
                   globVars, extVars>>

\* mutant: the poll loop may be left while the task is running
PollExitEarly ==
    /\ spc = "polling"
    /\ spc' = "drain"
    /\ UNCHANGED <<storeVars, runVars, out, outcome, progress_queue, pipeVars,
                   globVars, extVars>>

\* the loop test fails: the task is done
PollExit ==
    /\ spc = "polling"
    /\ TaskDone
    /\ spc' = "drain"
    /\ UNCHANGED <<storeVars, runVars, out, outcome, progress_queue, pipeVars,
                   globVars, extVars>>

\* while not progress_queue.empty(): get_nowait and yield
Drain ==
    /\ spc = "drain"
    /\ progress_queue # <<>>
    /\ out' = Append(out, Head(progress_queue))
    /\ progress_queue' = Tail(progress_queue)
    /\ UNCHANGED <<storeVars, runVars, spc, outcome, pipeVars, globVars, extVars>>

\* mutant: the terminal record is yielded without draining the queue
StreamFinishUndrained ==
    /\ spc = "drain"
    /\ IF task = "returned"
       THEN /\ sessions' = StoreResult(sessions)
            /\ lastOp' = StoreResultOp
            /\ out' = Append(out, [type |-> "result", result |-> final_response,
                                   session_id |-> session_id])
       ELSE /\ out' = Append(out, [type |-> "error", message |-> "failed"])
            /\ UNCHANGED <<sessions, lastOp>>
    /\ spc' = "done"
    /\ UNCHANGED <<now, runVars, outcome, progress_queue, pipeVars, globVars, extVars>>

\* mutant: the session is stored before the task's outcome is known
StreamFinishStoresFirst ==
    /\ spc = "drain"
    /\ progress_queue = <<>>
    /\ sessions' = StoreResult(sessions)
    /\ lastOp' = StoreResultOp
    /\ IF task = "returned"
       THEN out' = Append(out, [type |-> "result", result |-> final_response,
                                session_id |-> session_id])
       ELSE out' = Append(out, [type |-> "error", message |-> "failed"])
    /\ spc' = "done"
    /\ UNCHANGED <<now, runVars, outcome, progress_queue, pipeVars, globVars, extVars>>

\* result = await pipeline_task; store the session; yield the result record,
\* or yield the error record when the task raised
StreamFinish ==
    /\ spc = "drain"
    /\ progress_queue = <<>>
    /\ IF task = "returned"
       THEN /\ sessions' = StoreResult(sessions)
            /\ lastOp' = StoreResultOp
            /\ out' = Append(out, [type |-> "result", result |-> final_response,
                                   session_id |-> session_id])
       ELSE /\ out' = Append(out, [type |-> "error", message |-> "failed"])
            /\ UNCHANGED <<sessions, lastOp>>
    /\ spc' = "done"
    /\ UNCHANGED <<now, runVars, outcome, progress_queue, pipeVars, globVars, extVars>>

\* analyze / refine up to the await of the pipeline: refine checks the
\* session first and raises AnalysisError when it is absent or expired
Call ==
    /\ spc = "start"
    /\ ~streamed
    /\ IF kind = "analyze"
       THEN /\ task' = "created"
            /\ spc' = "awaiting"
            /\ UNCHANGED <<sessions, lastOp, outcome>>
       ELSE /\ sessions' = get(sessions, session_id, now)
            /\ lastOp' = OpRecord("get", session_id,
                                   get_result(sessions, session_id, now), sessions)
            /\ IF get_result(sessions, session_id, now) = None
               THEN /\ outcome' = Append(outcome,
                          [type |-> "AnalysisError",
                           message |-> "Session not found or expired"])
                    /\ spc' = "done"
                    /\ UNCHANGED task
               ELSE /\ task' = "created"
                    /\ spc' = "awaiting"
                    /\ UNCHANGED outcome
    /\ UNCHANGED <<now, runVars, out, progress_queue, events, completed, state,
                   seen_agents, final_response, hadText, batch1_done_at, consensus_out, called, globVars, extVars>>

\* the pipeline returned: store the session and return; or it raised:
\* raise AnalysisError
CallFinish ==
    /\ spc = "awaiting"
    /\ TaskDone
    /\ IF task = "returned"
       THEN /\ sessions' = StoreResult(sessions)
            /\ lastOp' = StoreResultOp
            /\ outcome' = Append(outcome, [type |-> "return", result |-> final_response,
                                           session_id |-> session_id])
       ELSE /\ outcome' = Append(outcome, [type |-> "AnalysisError",
                                           message |-> "failed"])
            /\ UNCHANGED <<sessions, lastOp>>
    /\ spc' = "done"
    /\ UNCHANGED <<now, runVars, out, progress_queue, pipeVars, globVars, extVars>>

\* The stage the Runner is executing: a SequentialAgent runs its sub-agents
\* in order and a ParallelAgent ends when all of its sub-agents have ended.
CurStage ==
    IF \A i \in 1..Len(Graph) : Graph[i] \subseteq completed
    THEN Len(Graph) + 1
    ELSE CHOOSE i \in 1..Len(Graph) :
            /\ ~(Graph[i] \subseteq completed)
            /\ \A j \in 1..(i - 1) : Graph[j] \subseteq completed

Active == IF CurStage <= Len(Graph) THEN Graph[CurStage] \ completed ELSE {}

\* mutant: every role of role_breakdown is reported
RolesReportedAll(n) == Min(n, 10)

\* calculate_yoe's role_breakdown is roles[:10]; analyze_resume reports [:5]
RolesReported(n) == Min(Min(n, 10), 5)

\* the callbacks analyze_resume makes before the runner starts
RECURSIVE RoleMessages(_, _)
RoleMessages(i, n) ==
    IF i > n THEN <<>>
    ELSE <<Progress("role_breakdown", <<"role", i>>)>> \o RoleMessages(i + 1, n)

ModeMessage(mode) ==
    Progress("system", <<"mode", mode_labels(mode), get_models(mode).flash,
                         get_models(mode).pro>>)

InitialMessages(mode, n) ==
    <<ModeMessage(mode), Progress("career_analytics", <<"yoe", n>>)>>
    \o RoleMessages(1, RolesReported(n))

\* mutant: the pipeline is rebuilt only when nothing is built
RebuildOnlyUninitialized(mode) == ~pipeline_initialized

Rebuild(mode) == ~pipeline_initialized \/ last_initialized_mode # mode

\* analyze_resume / refine_results from the first step up to the first
\* suspension in runner.run_async; the callbacks are made only when a
\* progress_callback was passed (the streamed variants)
TaskStart ==
    /\ task = "created"
    /\ task' = "running"
    /\ IF kind = "analyze"
       THEN /\ current_model_mode' = model_mode
            /\ MODEL' = get_models(model_mode)
            /\ IF streamed
               THEN /\ progress_queue' =
                         progress_queue \o InitialMessages(model_mode, num_roles)
                    /\ called' = called \o InitialMessages(model_mode, num_roles)
               ELSE UNCHANGED <<progress_queue, called>>
            /\ IF Rebuild(model_mode)
               THEN /\ pipeline_initialized' = TRUE
                    /\ last_initialized_mode' = model_mode
                    /\ runner_models' = get_models(model_mode)
                    /\ adk_sessions' = create_session(<<>>, session_id)
               ELSE /\ adk_sessions' = create_session(adk_sessions, session_id)
                    /\ UNCHANGED <<pipeline_initialized, last_initialized_mode,
                                   runner_models>>
       ELSE /\ pipeline_initialized' = TRUE
            /\ runner_models' = (IF pipeline_initialized THEN runner_models ELSE MODEL)
            /\ adk_sessions' =
                  create_session(IF pipeline_initialized THEN adk_sessions ELSE <<>>,
                                 session_id)
            /\ UNCHANGED <<current_model_mode, MODEL, last_initialized_mode,
                           progress_queue, called>>
    /\ state' = adk_sessions'[session_id]
    /\ UNCHANGED <<storeVars, runVars, spc, out, outcome, events, completed,
                   seen_agents, final_response, hadText, batch1_done_at, consensus_out,
                   extVars>>

\* setup_pipeline raises while analyze_resume rebuilds the pipeline, before
\* or after it has replaced _session_service
TaskStartFail ==
    /\ task = "created"
    /\ kind = "analyze"
    /\ Rebuild(model_mode)
    /\ task' = "raised"
    /\ current_model_mode' = model_mode
    /\ MODEL' = get_models(model_mode)
    /\ IF streamed
       THEN /\ progress_queue' = Append(progress_queue, ModeMessage(model_mode))
            /\ called' = Append(called, ModeMessage(model_mode))
       ELSE UNCHANGED <<progress_queue, called>>
    /\ pipeline_initialized' = FALSE
    /\ last_initialized_mode' = model_mode
    /\ adk_sessions' \in {adk_sessions, <<>>}
    /\ UNCHANGED <<storeVars, runVars, spc, out, outcome, events, completed, state,
                   seen_agents, final_response, hadText, batch1_done_at, consensus_out, runner_models,
                   extVars>>

\* mutant: seen_agents is not consulted
ShouldReportEveryText(u, hasText) == hasText

\* Whether the loop body reports the event: the unit is not in seen_agents
\* and the event has a part with non-empty text
ShouldReport(u, hasText) == u \notin seen_agents /\ hasText

\* The events the Runner yields for unit u: at most MaxEvents of them; the
\* intermediate ones (tool calls, partial chunks) are not final responses
\* and may or may not carry text; the last one is the unit's final response,
\* with which its output key is written, and carries text unless the unit
\* is quiet. A quiet unit's events carry no text.
RunnerYields(u, hasText, isFinal, last) ==
    /\ u \in Active
    /\ events[u] < MaxEvents
    /\ (events[u] + 1 = MaxEvents) => last
    /\ isFinal = last
    /\ hasText => u \notin quiet
    /\ (last /\ u \notin quiet) => hasText

\* mutant: only the Formatter's final response is captured
capture_formatter_only(prev, u, isFinal, hasText) ==
    IF isFinal /\ hasText /\ u \in {"formatter", "formatter_refinement"} THEN u ELSE prev

\* "Capture final response": the text of an event that is a final response
\* and has a text part replaces final_response (the text of unit u's final
\* response is written u)
capture(prev, u, isFinal, hasText) == IF isFinal /\ hasText THEN u ELSE prev

\* One iteration of "async for event in runner.run_async(...)", the loop
\* body of analyze_resume / refine_results on the event the runner yields.
RunnerEvent(u, hasText, isFinal, last) ==
    /\ task = "running"
    /\ RunnerYields(u, hasText, isFinal, last)
    /\ events' = [events EXCEPT ![u] = IF last THEN 0 ELSE @ + 1]
    /\ hadText' = (IF hasText THEN hadText \cup {u} ELSE hadText)
    /\ batch1_done_at' =
          (IF last /\ u \in Batch1 /\ Batch1 \subseteq completed \cup {u}
           THEN {now}
           ELSE IF \A v \in Batch2 : v = u \/ events[v] > 0 \/ v \in completed
           THEN {}
           ELSE batch1_done_at)
    /\ IF last /\ u = "consensus"
       THEN consensus_out' \in {{v} : v \in Verdicts(levels)}
       ELSE consensus_out' = consensus_out
    /\ IF ShouldReport(u, hasText)
       THEN /\ seen_agents' = seen_agents \cup {u}
            /\ IF streamed
               THEN /\ progress_queue' =
                         progress_callback(progress_queue, u,
                                           <<agent_labels(kind, u), Preview>>)
                    /\ called' = Append(called,
                                        Progress(u, <<agent_labels(kind, u), Preview>>))
               ELSE UNCHANGED <<progress_queue, called>>
       ELSE UNCHANGED <<seen_agents, progress_queue, called>>
    /\ final_response' = capture(final_response, u, isFinal, hasText)
    /\ IF last
       THEN /\ completed' = completed \cup {u}
            /\ state' = state \cup {output_key(u)}
            /\ adk_sessions' = [adk_sessions EXCEPT ![session_id] = @ \cup {output_key(u)}]
       ELSE UNCHANGED <<completed, state, adk_sessions>>
    /\ UNCHANGED <<storeVars, runVars, spc, out, outcome, task, pipeline_initialized,
                   last_initialized_mode, current_model_mode, MODEL, runner_models,
                   extVars>>

\* mutant: a failing run records the failure as the session's report
RunnerFailRecorded(u) ==
    /\ task = "running"
    /\ u \in Active
    /\ task' = "raised"
    /\ sessions' = update(sessions, session_id, "failed", {}, now)
    /\ UNCHANGED <<now, lastOp, runVars, streamVars, events, completed, state,
                   seen_agents, final_response, hadText, batch1_done_at, consensus_out, called, globVars, extVars>>

\* The Unit Executor raises while unit u runs: the exception leaves
\* run_async and analyze_resume / refine_results
RunnerFail(u) ==
    /\ task = "running"
    /\ u \in Active
    /\ task' = "raised"
    /\ UNCHANGED <<storeVars, runVars, streamVars, events, completed, state,
                   seen_agents, final_response, hadText, batch1_done_at, consensus_out, called, globVars, extVars>>

\* mutant: the pipeline task of a full analysis stores the report itself
TaskReturnStores ==
    /\ task = "running"
    /\ Active = {}
    /\ task' = "returned"
    /\ sessions' = StoreResult(sessions)
    /\ lastOp' = StoreResultOp
    /\ UNCHANGED <<now, runVars, streamVars, events, completed, state,
                   seen_agents, final_response, hadText, batch1_done_at, consensus_out, called, globVars, extVars>>

\* mutant: a run that captured no final response raises
TaskReturnChecked ==
    /\ task = "running"
    /\ Active = {}
    /\ task' = (IF final_response = NO_RESPONSE THEN "raised" ELSE "returned")
    /\ UNCHANGED <<storeVars, runVars, streamVars, events, completed, state,
                   seen_agents, final_response, hadText, batch1_done_at, consensus_out, called, globVars, extVars>>

\* run_async is exhausted: return final_response
TaskReturn ==
    /\ task = "running"
    /\ Active = {}
    /\ task' = "returned"
    /\ UNCHANGED <<storeVars, runVars, streamVars, events, completed, state,
                   seen_agents, final_response, hadText, batch1_done_at, consensus_out, called, globVars, extVars>>

\* Time passes while the pipeline task is suspended in run_async
Elapse ==
    /\ task = "running"
    /\ now < MaxNow
    /\ now' = now + 1
    /\ UNCHANGED <<sessions, lastOp, runVars, streamVars, pipeVars, globVars, extVars>>

NextRun ==
    \/ StreamOpen
    \/ StreamSpawn
    \/ PollWait
    \/ PollGet
    \/ PollTimeout
    \/ PollExit
    \/ Drain
    \/ StreamFinish
    \/ Call
    \/ CallFinish
    \/ TaskStart
    \/ TaskStartFail
    \/ \E u \in Units, hasText \in BOOLEAN, isFinal \in BOOLEAN, last \in BOOLEAN :
          RunnerEvent(u, hasText, isFinal, last)
    \/ \E u \in Units : RunnerFail(u)
    \/ TaskReturn
    \/ Elapse

SpecRun == InitRun /\ [][NextRun]_vars

\* ------------------------------------------- a caller that disconnects
\* The streamed variants with a caller that may stop consuming: the
\* generator is closed where it is suspended (GeneratorExit at a yield,
\* CancelledError in wait_for), which none of its except clauses catches.

\* mutant: closing the generator cancels the pipeline task
DisconnectCancels ==
    /\ streamed
    /\ spc \in {"opened", "polling", "waiting", "drain"}
    /\ spc' = "closed"
    /\ task' = (IF task \in {"created", "running"} THEN "cancelled" ELSE task)
    /\ UNCHANGED <<storeVars, runVars, out, outcome, progress_queue, events,
                   completed, state, seen_agents, final_response, hadText,
                   batch1_done_at, consensus_out, called, globVars, extVars>>

\* the generator is closed before its terminal record: its frame is left,
\* nothing in it runs again; pipeline_task is not touched
Disconnect ==
    /\ streamed
    /\ spc \in {"opened", "polling", "waiting", "drain"}
    /\ spc' = "closed"
    /\ UNCHANGED <<storeVars, runVars, out, outcome, progress_queue, pipeVars,
                   globVars, extVars>>

\* The streamed calls a caller abandons: a full analysis in fast mode of a
\* resume without roles, only the formatter answering with text, and a
\* refinement, every unit answering with text or none
CloseAnalyzeInputs ==
    {<<TRUE, "fast", 0, "expired", StageUnits(orchestrator) \ {"formatter"}>>}

CloseRefineInputs ==
    {<<TRUE, "valid", {}>>, <<TRUE, "valid", StageUnits(refinement_pipeline)>>}

InitClose == InitRunWith(CloseAnalyzeInputs, CloseRefineInputs)

\* a step of the pipeline task
TaskStep ==
    \/ TaskStart
    \/ TaskStartFail
    \/ \E u \in Units, hasText \in BOOLEAN, isFinal \in BOOLEAN, last \in BOOLEAN :
          RunnerEvent(u, hasText, isFinal, last)
    \/ \E u \in Units : RunnerFail(u)
    \/ TaskReturn

\* a step of the stream generator, resumed by its consumer
StreamStep ==
    \/ StreamOpen
    \/ StreamSpawn
    \/ PollWait
    \/ PollGet
    \/ PollTimeout
    \/ PollExit
    \/ Drain
    \/ StreamFinish

NextClose ==
    \/ StreamStep
    \/ TaskStep
    \/ Elapse
    \/ Disconnect

\* The event loop runs a task that is ready, and every call the runner
\* awaits returns or raises.
SpecCloseLive == InitClose /\ [][NextClose]_vars /\ WF_vars(TaskStep)

\* Another request refines under the session id a streamed analysis has
\* announced and not yet ended: the session check of refine / refine_stream
RefineAnnounced ==
    /\ streamed /\ kind = "analyze"
    /\ spc \in {"opened", "polling", "waiting", "drain"}
    /\ sessions' = get(sessions, session_id, now)
    /\ lastOp' = OpRecord("get", session_id, get_result(sessions, session_id, now),
                          sessions)
    /\ UNCHANGED <<now, runVars, streamVars, pipeVars, globVars, extVars>>

\* The streamed variants with a caller that consumes the stream to its
\* end: whenever the generator can take a step it is eventually resumed
\* (the wait of the poll loop ends after 0.1 s at the latest). Nothing is
\* assumed of the pipeline task.
NextStream ==
    \/ StreamStep
    \/ TaskStep
    \/ Elapse
    \/ RefineAnnounced

SpecStreamLive == InitClose /\ [][NextStream]_vars /\ WF_vars(StreamStep)

\* ------------------------------------------------- sequences of calls
\* Full analyses and refinements made one after the other against the same
\* process: each analysis a single step (analyze with analyze_resume, to
\* its successful end), each refinement two steps (up to the start of the
\* refinement runner, then to its end).

OrchestratorKeys == {output_key(u) : u \in StageUnits(orchestrator)}

RefinementKeys == {output_key(u) : u \in StageUnits(refinement_pipeline)}

\* generate_session_id: an id no session was ever given
FreshId(id) == id \notin DOMAIN sessions /\ id \notin DOMAIN adk_sessions

\* analyze(resume_text) in the given mode, the pipeline returning a report
AnalyzeCall(id, text, mode) ==
    /\ task = "none"
    /\ FreshId(id)
    /\ current_model_mode' = mode
    /\ MODEL' = get_models(mode)
    /\ model_mode' = mode
    /\ LET base == IF Rebuild(mode) THEN <<>> ELSE adk_sessions
           A == create_session(base, id)
       IN  adk_sessions' = [A EXCEPT ![id] = @ \cup OrchestratorKeys]
    /\ IF Rebuild(mode)
       THEN /\ pipeline_initialized' = TRUE
            /\ last_initialized_mode' = mode
            /\ runner_models' = get_models(mode)
       ELSE UNCHANGED <<pipeline_initialized, last_initialized_mode, runner_models>>
    /\ sessions' = update(create(sessions, id, text, now), id, "report1", {}, now)
    /\ lastOp' = OpRecord("update", id, id, create(sessions, id, text, now))
    /\ UNCHANGED <<now, kind, streamed, resume_text, num_roles, session_id, quiet, levels,
                   streamVars, pipeVars, extVars>>

\* refine(session_id, feedback) up to the start of the refinement runner:
\* the session check, then refine_results' create_session
RefineBegin(id) ==
    /\ task = "none"
    /\ sessions' = get(sessions, id, now)
    /\ lastOp' = OpRecord("get", id, get_result(sessions, id, now), sessions)
    /\ IF get_result(sessions, id, now) = None
       THEN UNCHANGED <<kind, session_id, task, state, globVars>>
       ELSE /\ kind' = "refine"
            /\ session_id' = id
            /\ task' = "running"
            /\ pipeline_initialized' = TRUE
            /\ runner_models' = (IF pipeline_initialized THEN runner_models ELSE MODEL)
            /\ adk_sessions' =
                  create_session(IF pipeline_initialized THEN adk_sessions ELSE <<>>, id)
            /\ state' = adk_sessions'[id]
            /\ UNCHANGED <<last_initialized_mode, current_model_mode, MODEL>>
    /\ UNCHANGED <<now, streamed, model_mode, resume_text, num_roles, quiet, levels,
                   streamVars, events, completed, seen_agents, final_response,
                   hadText, batch1_done_at, consensus_out, called, extVars>>

\* the refinement runner ends and refine stores the report
RefineEnd ==
    /\ task = "running"
    /\ adk_sessions' = [adk_sessions EXCEPT ![session_id] = @ \cup RefinementKeys]
    /\ sessions' = update(sessions, session_id, "report2", {}, now)
    /\ lastOp' = OpRecord("update", session_id,
                          update_result(sessions, session_id, now), sessions)
    /\ task' = "none"
    /\ kind' = "none"
    /\ session_id' = None
    /\ state' = {}
    /\ UNCHANGED <<now, streamed, model_mode, resume_text, num_roles, quiet, levels,
                   streamVars, events, completed, seen_agents, final_response,
                   hadText, batch1_done_at, consensus_out, called, pipeline_initialized, last_initialized_mode,
                   current_model_mode, MODEL, runner_models, extVars>>

NextPipe ==
    \/ \E id \in SessionIds, text \in ResumeTexts, mode \in Modes :
          AnalyzeCall(id, text, mode)
    \/ \E id \in SessionIds : RefineBegin(id)
    \/ RefineEnd
    \/ Tick

SpecPipe == InitStore /\ [][NextPipe]_vars

\* ------------------------------------------------------ consensus rule
\* The consensus rule applied to every triple of levels.

InitConsensus ==
    /\ sessions = <<>> /\ now = 0 /\ lastOp = NoOp("init")
    /\ kind = "none" /\ streamed = FALSE /\ model_mode = "standard"
    /\ resume_text = None /\ num_roles = 0
    /\ session_id = None /\ quiet = {}
    /\ levels \in Levels \X Levels \X Levels
    /\ spc = "idle" /\ out = <<>> /\ outcome = <<>> /\ progress_queue = <<>>
    /\ task = "none" /\ events = <<>> /\ completed = {} /\ state = {}
    /\ seen_agents = {} /\ final_response = None
    /\ hadText = {} /\ called = <<>> /\ batch1_done_at = {} /\ consensus_out = {}
    /\ Started
    /\ adk_sessions = <<>>
    /\ ToolsIdle

\* the consensus agent answers
Consensus ==
    /\ consensus_out = {}
    /\ \E v \in Verdicts(levels) : consensus_out' = {v}
    /\ UNCHANGED <<storeVars, runVars, streamVars, task, events, completed, state,
                   seen_agents, final_response, hadText, called, batch1_done_at,
                   globVars, extVars>>

NextConsensus == Consensus

SpecConsensus == InitConsensus /\ [][NextConsensus]_vars

\* ------------------------------------------------------ calculate_yoe
\* calculate_yoe called on the same text, at most MaxCalls times, while the
\* calendar advances by at most MaxMonths months from StartDate.

StartDate == <<2020, 12>>

next_month(d) == IF d[2] = 12 THEN <<d[1] + 1, 1>> ELSE <<d[1], d[2] + 1>>

months_since(a, b) == (b[1] - a[1]) * 12 + (b[2] - a[2])

RangeTexts ==
    UNION {[1..n -> DateRanges] : n \in 0..MaxRanges}

InitYoe ==
    /\ sessions = <<>> /\ now = 0 /\ lastOp = NoOp("init")
    /\ NoRun
    /\ today = StartDate
    /\ \E rs \in RangeTexts, ys \in {{}, {5, 8}} :
          yoe_text = [ranges |-> rs, years |-> ys]
    /\ ypc = "idle" /\ current_year = 0 /\ current_month = 0
    /\ all_months_worked = {} /\ summaries = <<>>
    /\ LinksIdle /\ TwoIdle

\* current_year = datetime.now().year
YoeReadYear ==
    /\ ypc = "idle"
    /\ Len(summaries) < MaxCalls
    /\ current_year' = today[1]
    /\ ypc' = "year_read"
    /\ UNCHANGED <<storeVars, runVars, streamVars, pipeVars, globVars, today, yoe_text,
                   current_month, all_months_worked, summaries, linkVars, twoVars>>

\* current_month = datetime.now().month
YoeReadMonth ==
    /\ ypc = "year_read"
    /\ current_month' = today[2]
    /\ ypc' = "month_read"
    /\ UNCHANGED <<storeVars, runVars, streamVars, pipeVars, globVars, today, yoe_text,
                   current_year, all_months_worked, summaries, linkVars, twoVars>>

\* the rest of calculate_yoe, to its return
YoeReturn ==
    /\ ypc = "month_read"
    /\ all_months_worked' = AllMonthsWorked(yoe_text.ranges, current_year, current_month)
    /\ summaries' = Append(summaries, calculate_yoe(yoe_text, current_year, current_month))
    /\ ypc' = "idle"
    /\ UNCHANGED <<storeVars, runVars, streamVars, pipeVars, globVars, today, yoe_text,
                   current_year, current_month, linkVars, twoVars>>

\* the calendar month ends
MonthPasses ==
    /\ months_since(StartDate, today) < MaxMonths
    /\ today' = next_month(today)
    /\ UNCHANGED <<storeVars, runVars, streamVars, pipeVars, globVars, yoe_text, ypc,
                   current_year, current_month, all_months_worked, summaries,
                   linkVars, twoVars>>

NextYoe ==
    \/ YoeReadYear
    \/ YoeReadMonth
    \/ YoeReturn
    \/ MonthPasses

SpecYoe == InitYoe /\ [][NextYoe]_vars

\* ----------------------------------------------------- check_job_urls
\* check_job_urls on a job_output holding at most MaxUrls links (the same
\* link may occur more than once); the probes of validate_urls_async are
\* gathered, so they end in any order.

Urls == {"https://a.example/jobs/1", "https://b.example/careers",
         "https://c.example/apply"}

UrlLists == UNION {[1..n -> Urls] : n \in 0..MaxUrls}

InitLinks ==
    /\ sessions = <<>> /\ now = 0 /\ lastOp = NoOp("init")
    /\ NoRun
    /\ YoeIdle /\ TwoIdle
    /\ job_urls \in UrlLists
    /\ probe_results = <<>> /\ validation_result = {} /\ check_result = {}

\* check_job_urls finds no link
CheckNoUrls ==
    /\ check_result = {}
    /\ job_urls = <<>>
    /\ check_result' = {NoUrlsFound}
    /\ UNCHANGED <<storeVars, runVars, streamVars, pipeVars, globVars, yoeVars,
                   job_urls, probe_results, validation_result, twoVars>>

\* validate_url_async(urls[i]) returns r
Probe(i, r) ==
    /\ check_result = {}
    /\ i \in DOMAIN job_urls
    /\ i \notin DOMAIN probe_results
    /\ r \in ProbeOutcomes(job_urls[i])
    /\ probe_results' = [j \in DOMAIN probe_results \cup {i} |->
                            IF j = i THEN r ELSE probe_results[j]]
    /\ UNCHANGED <<storeVars, runVars, streamVars, pipeVars, globVars, yoeVars,
                   job_urls, validation_result, check_result, twoVars>>

\* asyncio.gather has every result: validate_urls_async returns, then
\* check_job_urls
CheckReturn ==
    /\ check_result = {}
    /\ job_urls # <<>>
    /\ DOMAIN probe_results = DOMAIN job_urls
    /\ LET results == [i \in 1..Len(job_urls) |-> probe_results[i]]
           v == validate_urls_async(job_urls, results)
       IN  /\ validation_result' = {v}
           /\ check_result' = {check_job_urls(job_urls, v)}
    /\ UNCHANGED <<storeVars, runVars, streamVars, pipeVars, globVars, yoeVars,
                   job_urls, probe_results, twoVars>>

NextLinks ==
    \/ CheckNoUrls
    \/ \E i \in 1..MaxUrls, r \in UNION {ProbeOutcomes(u) : u \in Urls} : Probe(i, r)
    \/ CheckReturn

SpecLinks == InitLinks /\ [][NextLinks]_vars

\* ------------------------------------------------ two calls at a time
\* Two requests served by the same process at the same time: two full
\* analyses, each in its own mode (analyze_stream passes the mode of the
\* request to analyze_resume), or two refinements of the same session
\* through the /refine endpoint. A call runs the stages of its pipeline
\* one after the other; every await inside a stage is a point where the
\* other call may run. status is the HTTP status of a /refine answer.

Requests == {1, 2}

\* the report the pipeline of request r returns
RunResult(r) == IF r = 1 THEN "report2" ELSE "report3"

\* the texts of the exceptions a unit raises
UnitErrors ==
    {"429 RESOURCE_EXHAUSTED. Quota exceeded",
     "404 NOT_FOUND. models/gemini-3-pro-preview is not found"}

SESSION_NOT_FOUND == "Session not found or expired. Please analyze a resume first."

\* "not found" in str(e).lower(), for the messages an AnalysisError carries
contains_not_found(message) ==
    message \in {<<SESSION_NOT_FOUND>>,
                 <<"Refinement failed: ",
                   "404 NOT_FOUND. models/gemini-3-pro-preview is not found">>}

\* the status of the HTTPException the /refine endpoint raises for an
\* AnalysisError with the given message
refine_status(message) == IF contains_not_found(message) THEN 404 ELSE 500

NewRun(k, mode, sid) ==
    [kind |-> k, mode |-> mode, sid |-> sid, pc |-> "created", runner |-> {},
     owner |-> 0, stage |-> 1, used |-> {}, found |-> FALSE, seen |-> "",
     status |-> 0,
     detail |-> <<>>, order |-> 0]

GraphOf(k) == IF k = "refine" THEN refinement_pipeline ELSE orchestrator

\* The two calls and what the process holds when they arrive: two full
\* analyses in modes m1 and m2 with fresh session ids, after startup or
\* after an earlier analysis; or two refinements of session s1, which is
\* absent, valid or expired
InitTwo ==
    /\ kind = "none" /\ streamed = FALSE /\ model_mode = "standard"
    /\ resume_text = None /\ num_roles = 0
    /\ session_id = None /\ quiet = {} /\ levels = <<>>
    /\ spc = "idle" /\ out = <<>> /\ outcome = <<>> /\ progress_queue = <<>>
    /\ task = "none" /\ events = <<>> /\ completed = {} /\ state = {}
    /\ seen_agents = {} /\ final_response = None
    /\ hadText = {} /\ called = <<>> /\ batch1_done_at = {} /\ consensus_out = {}
    /\ YoeIdle /\ LinksIdle
    /\ runner_owner = 0
    /\ \/ \E m1 \in Modes, m2 \in Modes, sc \in {"empty", "valid"} :
             /\ StoreAt(sc) /\ ProcessAt(sc)
             /\ runs = <<NewRun("analyze", m1, "s2"), NewRun("analyze", m2, "s3")>>
       \/ \E sc \in {"empty", "valid", "expired"} :
             /\ StoreAt(sc) /\ ProcessAt(sc)
             /\ runs = <<NewRun("refine", "standard", "s1"),
                         NewRun("refine", "standard", "s1")>>

\* mutant: a unit runs on whatever runner the module holds when it starts
RunnerOfModule(r) == {runner_models}

\* the runner object whose run_async generator request r iterates
RunnerOf(r) == runs[r].runner

\* mutant: the report is stored only if the session still holds the report
\* the call found when it began
RefineStoreIfUnchanged(S, r) ==
    IF get_result(S, runs[r].sid, now) # None /\ S[runs[r].sid].last_result # runs[r].seen
    THEN S
    ELSE update(S, runs[r].sid, RunResult(r), {}, now)

\* self._session_service.update(session_id, result) of refine
RefineStore(S, r) == update(S, runs[r].sid, RunResult(r), {}, now)

\* analyze_resume from its first statement to the first suspension inside
\* _runner.run_async: setup_pipeline and InMemorySessionService.create_session
\* are coroutines without a suspension point
AnalyzeStart(r) ==
    /\ runs[r].pc = "created"
    /\ runs[r].kind = "analyze"
    /\ current_model_mode' = runs[r].mode
    /\ MODEL' = get_models(runs[r].mode)
    /\ IF Rebuild(runs[r].mode)
       THEN /\ pipeline_initialized' = TRUE
            /\ last_initialized_mode' = runs[r].mode
            /\ runner_models' = get_models(runs[r].mode)
            /\ runner_owner' = r
            /\ adk_sessions' = create_session(<<>>, runs[r].sid)
       ELSE /\ adk_sessions' = create_session(adk_sessions, runs[r].sid)
            /\ UNCHANGED <<pipeline_initialized, last_initialized_mode, runner_models,
                           runner_owner>>
    /\ runs' = [runs EXCEPT ![r].pc = "running",
                            ![r].runner = {runner_models'},
                            ![r].owner = runner_owner']
    /\ UNCHANGED <<storeVars, runVars, streamVars, pipeVars, yoeVars, linkVars>>

\* /refine: refine checks the session and raises AnalysisError, which the
\* endpoint answers; or it enters refine_results, up to the first
\* suspension inside _refinement_runner.run_async
RefineStart(r) ==
    /\ runs[r].pc = "created"
    /\ runs[r].kind = "refine"
    /\ sessions' = get(sessions, runs[r].sid, now)
    /\ lastOp' = OpRecord("get", runs[r].sid, get_result(sessions, runs[r].sid, now),
                          sessions)
    /\ IF get_result(sessions, runs[r].sid, now) = None
       THEN /\ runs' = [runs EXCEPT ![r].pc = "answered",
                                    ![r].detail = <<SESSION_NOT_FOUND>>,
                                    ![r].status = refine_status(<<SESSION_NOT_FOUND>>)]
            /\ UNCHANGED <<globVars, runner_owner>>
       ELSE /\ pipeline_initialized' = TRUE
            /\ runner_models' = (IF pipeline_initialized THEN runner_models ELSE MODEL)
            /\ runner_owner' = (IF pipeline_initialized THEN runner_owner ELSE r)
            /\ adk_sessions' =
                  create_session(IF pipeline_initialized THEN adk_sessions ELSE <<>>,
                                 runs[r].sid)
            /\ runs' = [runs EXCEPT ![r].pc = "running",
                                    ![r].runner = {runner_models'},
                                    ![r].owner = runner_owner',
                                    ![r].found = TRUE,
                                    ![r].seen = sessions[runs[r].sid].last_result]
            /\ UNCHANGED <<last_initialized_mode, current_model_mode, MODEL>>
    /\ UNCHANGED <<now, runVars, streamVars, pipeVars, yoeVars, linkVars>>

\* the units of the next stage of request r run, on the agents of the
\* runner the call iterates, and write their output keys to the session of
\* that runner's session service
StageRun(r) ==
    /\ runs[r].pc = "running"
    /\ runs[r].stage <= Len(GraphOf(runs[r].kind))
    /\ runs' = [runs EXCEPT ![r].stage = @ + 1,
                            ![r].used = @ \cup RunnerOf(r)]
    /\ IF runs[r].owner = runner_owner /\ runs[r].sid \in DOMAIN adk_sessions
       THEN adk_sessions' =
               [adk_sessions EXCEPT ![runs[r].sid] =
                   @ \cup {output_key(u) : u \in GraphOf(runs[r].kind)[runs[r].stage]}]
       ELSE UNCHANGED adk_sessions
    /\ UNCHANGED <<storeVars, runVars, streamVars, pipeVars, pipeline_initialized,
                   last_initialized_mode, current_model_mode, MODEL, runner_models,
                   yoeVars, linkVars, runner_owner>>

\* a unit of request r raises e: the service wraps the text of e in its
\* own error, which the /refine endpoint answers by its text
StageFail(r, e) ==
    /\ runs[r].pc = "running"
    /\ runs[r].stage <= Len(GraphOf(runs[r].kind))
    /\ runs' = [runs EXCEPT
                  ![r].pc = "answered",
                  ![r].detail = IF runs[r].kind = "refine"
                                THEN <<"Refinement failed: ", e>>
                                ELSE <<"Pipeline execution failed: ", e>>,
                  ![r].status = IF runs[r].kind = "refine"
                                THEN refine_status(<<"Refinement failed: ", e>>)
                                ELSE 0]
    /\ UNCHANGED <<storeVars, runVars, streamVars, pipeVars, globVars, yoeVars,
                   linkVars, runner_owner>>

\* the pipeline of request r has returned: the service stores the report
\* and the call ends
StoreAndAnswer(r) ==
    /\ runs[r].pc = "running"
    /\ runs[r].stage > Len(GraphOf(runs[r].kind))
    /\ IF runs[r].kind = "analyze"
       THEN /\ sessions' = update(create(sessions, runs[r].sid, "resumeB", now),
                                  runs[r].sid, RunResult(r), {}, now)
            /\ lastOp' = OpRecord("update", runs[r].sid, runs[r].sid,
                                  create(sessions, runs[r].sid, "resumeB", now))
       ELSE /\ sessions' = RefineStore(sessions, r)
            /\ lastOp' = OpRecord("update", runs[r].sid,
                                  update_result(sessions, runs[r].sid, now), sessions)
    /\ runs' = [runs EXCEPT
                  ![r].pc = "answered",
                  ![r].status = IF runs[r].kind = "refine" THEN 200 ELSE 0,
                  ![r].order = 1 + Cardinality({q \in Requests : runs[q].order > 0})]
    /\ UNCHANGED <<now, runVars, streamVars, pipeVars, globVars, yoeVars, linkVars,
                   runner_owner>>

\* time passes while a call is in flight
TwoElapse ==
    /\ \E r \in Requests : runs[r].pc = "running"
    /\ now < MaxNow
    /\ now' = now + 1
    /\ UNCHANGED <<sessions, lastOp, runVars, streamVars, pipeVars, globVars, extVars>>

NextTwo ==
    \/ \E r \in Requests : AnalyzeStart(r)
    \/ \E r \in Requests : RefineStart(r)
    \/ \E r \in Requests : StageRun(r)
    \/ \E r \in Requests, e \in UnitErrors : StageFail(r, e)
    \/ \E r \in Requests : StoreAndAnswer(r)
    \/ TwoElapse

SpecTwo == InitTwo /\ [][NextTwo]_vars

\* ------------------------------------------------------------- properties

IsProgress(r) == r.type = "progress"

IsTerminal(r) == r.type \in {"result", "error"}

Range(seq) == {seq[i] : i \in DOMAIN seq}

CountIn(seq, r) == Cardinality({i \in DOMAIN seq : seq[i] = r})

\* the records of agent a in a sequence of progress records
CountAgent(seq, a) == Cardinality({i \in DOMAIN seq : seq[i].agent = a})

\* The progress records the stream forwarded from the queue: those after the
\* stream's own opening record
Forwarded == IF out = <<>> THEN <<>> ELSE SelectSeq(Tail(out), IsProgress)

Terminals == SelectSeq(out, IsTerminal)

ProgressOut == SelectSeq(out, IsProgress)

StageOf(u) == CHOOSE i \in 1..Len(Graph) : u \in Graph[i]

UnitStarted(u) == events[u] > 0 \/ u \in completed

\* C1: in a streamed run no record follows a terminal record (so there is
\* at most one), the stream has ended exactly when its last record is
\* terminal, and when the terminal record is out every progress record of
\* the run has been emitted before it (nothing is left in the queue).
C1_TerminalIsLast ==
    streamed =>
        /\ \A i \in 1..Len(out) : IsTerminal(out[i]) => i = Len(out)
        /\ (spc = "done") <=> (out # <<>> /\ IsTerminal(out[Len(out)]))
        /\ (spc = "done") =>
              /\ Len(Terminals) = 1
              /\ progress_queue = <<>>
              /\ Len(Forwarded) = Len(called)

C1_Witness ==
    /\ streamed /\ spc = "done" /\ kind = "analyze"
    /\ out[Len(out)].type = "result"
    /\ Len(ProgressOut) >= 10

\* C2: every callback invocation is, at any moment, either still queued or
\* forwarded, exactly as often as it was made; nothing is forwarded that
\* was not passed to the callback; and when the stream has ended nothing
\* is queued, so each invocation was forwarded exactly once before the
\* terminal record.
C2_NoProgressDropped ==
    streamed =>
        /\ \A r \in Range(called) :
              CountIn(Forwarded, r) + CountIn(progress_queue, r) = CountIn(called, r)
        /\ Range(Forwarded) \cup Range(progress_queue) \subseteq Range(called)
        /\ (spc = "done") =>
              /\ progress_queue = <<>>
              /\ \A r \in Range(called) : CountIn(Forwarded, r) = 1
              /\ IsTerminal(out[Len(out)])

C2_Witness ==
    /\ streamed /\ spc = "done" /\ task = "raised"
    /\ Len(called) >= 8
    /\ Len(Forwarded) = Len(called)

\* C3 as stated: when the stream has ended it holds at most N progress
\* records, N the number of units of the pipeline.
C3_Original ==
    (streamed /\ spc = "done" /\ task # "none") =>
        Len(ProgressOut) <= Cardinality(Units)

\* C3 amended: N is 11 for the full analysis and 6 for refinement; at most
\* one progress record per unit, so at most N for the units; the records
\* that are no unit's (the stream's opening record and, in a full analysis,
\* the mode record, the career_analytics record and at most 5 role_breakdown
\* records) number at most 8 in a full analysis and 1 in a refinement; and
\* an ended stream holds exactly one terminal record.
C3_ProgressBound ==
    streamed =>
        /\ Cardinality(Units) = (IF kind = "refine" THEN 6 ELSE 11)
        /\ \A u \in Units : CountAgent(ProgressOut, u) <= 1
        /\ Cardinality({i \in DOMAIN ProgressOut : ProgressOut[i].agent \in Units})
              <= Cardinality(Units)
        /\ Cardinality({i \in DOMAIN ProgressOut : ProgressOut[i].agent \notin Units})
              <= (IF kind = "refine" THEN 1 ELSE 8)
        /\ Len(Terminals) <= 1
        /\ (spc = "done") => Len(Terminals) = 1

C3_Witness ==
    /\ streamed /\ spc = "done" /\ kind = "analyze"
    /\ Len(ProgressOut) = 19
    /\ Len(out) = 20

\* C4: the callback has been invoked for a unit exactly once if an event of
\* the unit with text has been yielded, and not at all otherwise: the first
\* event with text reports, later ones do not, and an event without text
\* neither reports nor uses up the unit's report.
C4_FirstTextOnce ==
    streamed =>
        \A u \in Units : CountAgent(called, u) = (IF u \in hadText THEN 1 ELSE 0)

C4_Witness ==
    /\ streamed
    /\ \E u, v \in Units :
          /\ events[u] >= 1 /\ u \notin hadText /\ u \notin quiet
          /\ CountAgent(called, u) = 0
          /\ events[v] >= 1 /\ v \in hadText
          /\ CountAgent(called, v) = 1

\* C5: the forwarded records are a prefix of the callback invocations, in
\* the same order; and a record of a unit of an earlier stage precedes
\* every record of a unit of a later stage.
C5_OrderPreserved ==
    streamed =>
        /\ Len(Forwarded) <= Len(called)
        /\ Forwarded = SubSeq(called, 1, Len(Forwarded))
        /\ \A i, j \in DOMAIN ProgressOut :
              (/\ ProgressOut[i].agent \in Units
               /\ ProgressOut[j].agent \in Units
               /\ StageOf(ProgressOut[i].agent) < StageOf(ProgressOut[j].agent))
              => i < j

C5_Witness ==
    /\ streamed /\ spc = "done" /\ task = "returned" /\ kind = "refine"
    /\ Len(Forwarded) = 6

\* C6: a unit that has started finds every unit of every earlier stage
\* completed and its output key written; in particular consensus starts
\* after both evaluators, and scout batch 2 after both scouts of batch 1,
\* in the full pipeline and in the refinement pipeline.
C6_BarrierJoin ==
    /\ \A i, j \in 1..Len(Graph) : \A u \in Graph[j], v \in Graph[i] :
          (i < j /\ UnitStarted(u)) => (v \in completed /\ output_key(v) \in state)
    /\ kind = "analyze" =>
          /\ UnitStarted("consensus") =>
                {"conservative_evaluator", "optimistic_evaluator"} \subseteq completed
          /\ \A u \in {"stretch_scout", "trajectory_scout"} :
                UnitStarted(u) =>
                    {"exact_match_scout", "level_up_scout"} \subseteq completed
    /\ kind = "refine" =>
          \A u \in {"stretch_scout_ref", "trajectory_scout_ref"} :
              UnitStarted(u) =>
                  {"exact_match_scout_ref", "level_up_scout_ref"} \subseteq completed

C6_Witness ==
    /\ kind = "analyze"
    /\ events["consensus"] = 1
    /\ {"conservative_evaluator", "optimistic_evaluator"} \subseteq completed
    /\ {"conservative_assessment", "optimistic_assessment"} \subseteq state

\* C7: when the pipeline run has raised and the call has ended, the
\* streamed variant has emitted a single terminal record, an error, and no
\* result; the plain variant has raised a single AnalysisError; and no
\* session was written: a failed full analysis leaves no session under its
\* session id, and what the store held is unchanged.
C7_FailureNotPersisted ==
    task = "raised" =>
        /\ kind = "analyze" => session_id \notin DOMAIN sessions
        /\ \A i \in DOMAIN sessions : sessions[i] = PriorSession
        /\ (spc = "done" /\ streamed) =>
              /\ Len(Terminals) = 1
              /\ out[Len(out)].type = "error"
              /\ outcome = <<>>
        /\ (spc = "done" /\ ~streamed) =>
              /\ Len(outcome) = 1
              /\ outcome[1].type = "AnalysisError"
              /\ out = <<>>

C7_Witness ==
    /\ task = "raised" /\ spc = "done" /\ kind = "analyze" /\ streamed
    /\ completed # {}
    /\ out[Len(out)].type = "error"

\* C8: a get of a held session whose age exceeds the TTL returns None and
\* removes that record and no other; a get of a held session whose age is
\* at most the TTL returns it and leaves the store as it was.
C8_GetExpiry ==
    [][lastOp'.op = "get" =>
          LET id == lastOp'.id IN
          /\ (id \in DOMAIN sessions /\ now - sessions[id].created_at > Ttl) =>
                /\ lastOp'.ret = None
                /\ DOMAIN sessions' = DOMAIN sessions \ {id}
                /\ \A j \in DOMAIN sessions' : sessions'[j] = sessions[j]
          /\ (id \in DOMAIN sessions /\ now - sessions[id].created_at <= Ttl) =>
                /\ lastOp'.ret = id
                /\ sessions' = sessions]_vars

C8_Witness ==
    /\ lastOp.op = "get"
    /\ lastOp.prev # {}
    /\ lastOp.ret = None
    /\ lastOp.id \notin DOMAIN sessions
    /\ DOMAIN sessions # {}

\* C9: an update of an id that is absent or expired returns None, leaves no
\* session under the id, and every session held afterwards was held before
\* with the same fields.
C9_UpdateInvalidNoOp ==
    [][lastOp'.op = "update" =>
          LET id == lastOp'.id IN
          (id \notin DOMAIN sessions \/ now - sessions[id].created_at > Ttl) =>
              /\ lastOp'.ret = None
              /\ id \notin DOMAIN sessions'
              /\ \A j \in DOMAIN sessions' :
                    j \in DOMAIN sessions /\ sessions'[j] = sessions[j]]_vars

C9_Witness ==
    /\ lastOp.op = "update"
    /\ lastOp.ret = None
    /\ lastOp.prev # {}
    /\ lastOp.id \notin DOMAIN sessions
    /\ DOMAIN sessions # {}

\* C10: get and update never change a session's created_at, and a get or
\* update of a held session made more than TTL after its creation returns
\* None and evicts it, whatever its updated_at.
C10_NotSliding ==
    [][lastOp'.op \in {"get", "update"} =>
          /\ \A j \in DOMAIN sessions \cap DOMAIN sessions' :
                sessions'[j].created_at = sessions[j].created_at
          /\ \A s \in lastOp'.prev :
                (now - s.created_at > Ttl) =>
                    (lastOp'.ret = None /\ lastOp'.id \notin DOMAIN sessions')]_vars

C10_Witness ==
    /\ lastOp.op \in {"get", "update"}
    /\ lastOp.ret = None
    /\ \E s \in lastOp.prev :
          /\ s.updated_at > s.created_at
          /\ now - s.updated_at <= Ttl
          /\ now - s.created_at > Ttl

\* C11: a create step stores under its id a session created and last
\* modified now, with an empty last report and no metadata; afterwards the
\* store holds no session older than the TTL; and the sessions that were
\* held and not older than the TTL are held unchanged.
C11_CreateSweeps ==
    [][lastOp'.op = "create" =>
          LET id == lastOp'.id IN
          /\ id \in DOMAIN sessions'
          /\ sessions'[id].session_id = id
          /\ sessions'[id].created_at = now
          /\ sessions'[id].updated_at = now
          /\ sessions'[id].last_result = ""
          /\ sessions'[id].metadata = {}
          /\ \A j \in DOMAIN sessions' : now - sessions'[j].created_at <= Ttl
          /\ \A j \in DOMAIN sessions \ {id} :
                (now - sessions[j].created_at <= Ttl) =>
                    (j \in DOMAIN sessions' /\ sessions'[j] = sessions[j])]_vars

\* a create has replaced an expired session that held a report, at a time
\* when a session created at time 0 and never read would have expired
C11_Witness ==
    /\ lastOp.op = "create"
    /\ now > Ttl
    /\ lastOp.id \in DOMAIN sessions
    /\ sessions[lastOp.id].created_at = now
    /\ \E s \in lastOp.prev : s.last_result # "" /\ now - s.created_at > Ttl

\* C12: a create, get, update or delete on id a leaves, for every other id
\* b and every time from now on, the result of get(b) as it would have
\* been: b is returned after the step iff it would have been returned
\* without it, with the same fields.
C12_DifferentIdsIndependent ==
    [][lastOp'.op \in {"create", "get", "update", "delete"} =>
          \A b \in SessionIds \ {lastOp'.id} : \A t \in now..(MaxNow + 1) :
              /\ get_result(sessions', b, t) = get_result(sessions, b, t)
              /\ get_result(sessions, b, t) # None => sessions'[b] = sessions[b]]_vars

\* a create on one id at the moment another session, already updated, has
\* reached exactly the TTL: the other session is still held
C12_Witness ==
    /\ lastOp.op = "create"
    /\ \E b \in DOMAIN sessions :
          /\ b # lastOp.id
          /\ sessions[b].last_result # ""
          /\ now - sessions[b].created_at = Ttl

\* C13: when a full analysis has ended with a result, the store holds under
\* the session id given to the caller a session whose input text is the
\* analysed text and whose last report is the report in the result.
C13_AnalysisPersisted ==
    (kind = "analyze" /\ spc = "done" /\ task = "returned") =>
        LET r == IF streamed THEN out[Len(out)] ELSE outcome[1] IN
        /\ r.type = (IF streamed THEN "result" ELSE "return")
        /\ r.session_id \in DOMAIN sessions
        /\ sessions[r.session_id].session_id = r.session_id
        /\ sessions[r.session_id].resume_text = resume_text
        /\ sessions[r.session_id].last_result = r.result
        /\ sessions[r.session_id].created_at = now

\* a full analysis has ended with a unit's report while the store still
\* holds the session of an earlier analysis
C13_Witness ==
    /\ kind = "analyze" /\ spc = "done" /\ task = "returned" /\ ~streamed
    /\ final_response # NO_RESPONSE
    /\ "s1" \in DOMAIN sessions
    /\ sessions[session_id].last_result = final_response

\* C14 as stated: when a refinement has ended with a result for session id
\* s, the store holds under s a session whose last report is that result
\* and whose last-modified time is the time of the update.
C14_Original ==
    (kind = "refine" /\ spc = "done" /\ task = "returned") =>
        /\ session_id \in DOMAIN sessions
        /\ sessions[session_id].last_result = final_response
        /\ sessions[session_id].updated_at = now

\* C15: a refinement whose session is absent or older than the TTL when it
\* is requested ends in that step with the session-not-found error (raised
\* by refine, the only record of refine_stream) without creating the
\* pipeline task, and the store is left without a session under the id and
\* with no session it did not hold; and a refinement that has ended without
\* a pipeline task has run no unit and made no callback.
C15_RefineWithoutSession ==
    /\ [][(/\ kind = "refine"
           /\ spc = "start"
           /\ \/ session_id \notin DOMAIN sessions
              \/ now - sessions[session_id].created_at > Ttl)
          => /\ spc' = "done"
             /\ task' = "none"
             /\ DOMAIN sessions' = DOMAIN sessions \ {session_id}
             /\ IF streamed
                THEN /\ out' = <<[type |-> "error",
                                  message |-> "Session not found or expired"]>>
                     /\ outcome' = <<>>
                ELSE /\ outcome' = <<[type |-> "AnalysisError",
                                      message |-> "Session not found or expired"]>>
                     /\ out' = <<>>]_vars
    /\ [](kind = "refine" /\ spc = "done" /\ task = "none" =>
             /\ completed = {} /\ called = <<>> /\ progress_queue = <<>>
             /\ \A u \in Units : events[u] = 0
             /\ session_id \notin DOMAIN sessions)

\* a streamed refinement of an expired session has ended: its only record
\* is the error, and the expired session has been evicted
C15_Witness ==
    /\ kind = "refine" /\ spc = "done" /\ task = "none" /\ streamed
    /\ Len(out) = 1 /\ out[1].type = "error"
    /\ lastOp.op = "get" /\ lastOp.prev # {} /\ lastOp.ret = None
    /\ sessions = <<>>

\* C16 as stated: a refinement of session id s that has passed the session
\* check runs with the shared state the full analysis of s produced: every
\* output key of the full pipeline is in the state it finds.
C16_Original ==
    (kind = "refine" /\ task = "running") => OrchestratorKeys \subseteq state

C18_Original ==
    [][(\E u \in Batch2 : ~UnitStarted(u) /\ UnitStarted(u)') =>
          \A t \in batch1_done_at : now' >= t + STAGGER_DELAY]_vars

\* C19: for all levels M, C, O on the scale, the consensus answer has a
\* final level on the scale; when the three are equal the final level is
\* that level and the label is High; when exactly two are equal the label
\* is Medium; when all three differ the label is Low.
C19_ConsensusRule ==
    \A v \in consensus_out :
        LET M == levels[1]  C == levels[2]  O == levels[3] IN
        /\ v.final_level \in 1..MaxLevel
        /\ (M = C /\ C = O) => (v.final_level = M /\ v.confidence_label = "High")
        /\ (Cardinality({M, C, O}) = 2) => v.confidence_label = "Medium"
        /\ (Cardinality({M, C, O}) = 3) => v.confidence_label = "Low"

\* the answer for 9, 10, 10: a weighted sum of 9.5 rounded up to the top of
\* the scale, two of three agreeing
C19_Witness ==
    /\ levels = <<9, 10, 10>>
    /\ \E v \in consensus_out : v.final_level = 10 /\ v.confidence_label = "Medium"

\* C20 as stated: M=8, C=6, O=6 give weighted sum 7.0, final level 7, label
\* Low and agreement 1/3.
C20_Original ==
    levels = <<8, 6, 6>> =>
        \A v \in consensus_out :
            /\ v.weighted = 700 /\ v.final_level = 7
            /\ v.confidence_label = "Low" /\ v.agreement = 1

\* C20 amended: M=8, C=6, O=6 give weighted sum 7.0 and final level 7; the
\* conservative and the optimistic level agree, so the label is Medium and
\* the agreement 2/3.
C20_ExactCase ==
    levels = <<8, 6, 6>> =>
        \A v \in consensus_out :
            /\ v.weighted = 700 /\ v.final_level = 7
            /\ v.confidence_label = "Medium" /\ v.agreement = 2

C20_Witness ==
    /\ levels = <<8, 6, 6>>
    /\ consensus_out # {}
    /\ kind = "none"

\* C21 as stated: whenever the weighted sum (2M + C + O)/4 ends in exactly
\* .5, the final level is the next integer above it (4, 5, 5 gives 4.5 and
\* final level 5).
C21_Original ==
    \A v \in consensus_out :
        (v.weighted % 100 = 50) => v.final_level = (v.weighted + 50) \div 100

\* the accepted ranges of the text of the last call, as the call parsed them
Accepted ==
    LET ps == [i \in DOMAIN yoe_text.ranges |->
                  ParseRange(yoe_text.ranges[i], current_year, current_month)]
    IN  [i \in {j \in DOMAIN ps : ps[j].accepted} |-> ps[i]]

\* the calendar months from the month of date a to the month of date b
Calendar(a, b) ==
    {d \in (a[1]..b[1]) \X (1..12) : Before(a, d) /\ Before(d, b)}

Covers(p, d) == Before(<<p.sy, p.sm>>, d) /\ Before(d, <<p.ey, p.em>>)

Returned == ypc = "idle" /\ summaries # <<>>

\* C22 as stated: when the text holds two accepted ranges that share at
\* least one calendar month, the deduplicated total of months is less than
\* the sum of the duration_months of the two roles.
C22_Original ==
    Returned =>
        LET A == Accepted
            s == summaries[Len(summaries)] IN
        (/\ Cardinality(DOMAIN A) = 2
         /\ \E i, j \in DOMAIN A : \E d \in all_months_worked :
               i # j /\ Covers(A[i], d) /\ Covers(A[j], d))
        => Cardinality(all_months_worked) < SumDurations(s.role_breakdown)

\* C23: when calculate_yoe returns, all_months_worked is exactly the set of
\* (year, month) pairs that lie between the start and the end of some
\* accepted range, endpoints included ("Present" being the year and month
\* the call read), total_yoe is that set's size in years, and a month
\* covered by several roles is in it once: its size is at most the sum of
\* the months each role covers. For the text "Jan 2018 - December 2020",
\* "Jun 2019 - Present" a call made within one calendar month returns the
\* months from Jan 2018 through that month.
C23_DedupTotal ==
    /\ [](Returned =>
            LET A == Accepted
                s == summaries[Len(summaries)] IN
            /\ \A d \in all_months_worked : \E i \in DOMAIN A : Covers(A[i], d)
            /\ \A i \in DOMAIN A :
                  Calendar(<<A[i].sy, A[i].sm>>, <<A[i].ey, A[i].em>>)
                      \subseteq all_months_worked
            /\ s.total_yoe = round1(Cardinality(all_months_worked), 12)
            /\ s.num_roles = Cardinality(DOMAIN A)
            /\ Cardinality(all_months_worked)
                  <= SumDurations(s.role_breakdown) + s.num_roles)
    /\ [][(/\ ypc = "month_read" /\ ypc' = "idle"
           /\ <<current_year, current_month>> = today
           /\ yoe_text.ranges = <<TextRange("Jan", 2018, "December", 2020),
                                  TextPresent("Jun", 2019)>>)
          => /\ all_months_worked' = Calendar(<<2018, 1>>, today)
             /\ Cardinality(all_months_worked') = months_since(<<2018, 1>>, today) + 1]_vars

\* the call on the two-range text made in January 2021 has returned 37
\* months, fewer than the 36 and 19 months the two roles cover
C23_Witness ==
    /\ Returned
    /\ yoe_text.ranges = <<TextRange("Jan", 2018, "December", 2020),
                           TextPresent("Jun", 2019)>>
    /\ <<current_year, current_month>> = <<2021, 1>>
    /\ Cardinality(all_months_worked) = 37
    /\ summaries[Len(summaries)].total_yoe = 31

\* C24 as stated: all the summaries calculate_yoe returns for the same text
\* are equal, whenever the calls are made.
C24_Original ==
    \A i, j \in DOMAIN summaries : summaries[i] = summaries[j]

\* C25: when validate_urls_async has returned, invalid_urls lists, in order,
\* exactly the links whose probe did not end with status 200 (another
\* status or a raised error, which is recorded in the probe's result),
\* invalid_count = total_urls - valid_count = the length of invalid_urls,
\* all_valid holds iff invalid_count = 0, and check_job_urls reports the
\* same all_valid and invalid_urls; probes ending 200, 404 and with a
\* timeout give all_valid false, invalid_count 2 and invalid_urls without
\* the first link.
C25_LinkAggregate ==
    \A v \in validation_result : \A c \in check_result :
        LET bad == {i \in DOMAIN job_urls : probe_results[i].status # {200}} IN
        /\ v.total_urls = Len(job_urls)
        /\ Len(v.invalid_urls) = Cardinality(bad)
        /\ \A i \in DOMAIN job_urls :
              /\ (i \in bad) <=> ~v.results[i].valid
              /\ (probe_results[i].status = {}) <=> (probe_results[i].error # None)
              /\ (i \in bad) =>
                    v.invalid_urls[Cardinality({j \in bad : j <= i})] = job_urls[i]
        /\ v.invalid_count = v.total_urls - v.valid_count
        /\ v.invalid_count = Len(v.invalid_urls)
        /\ v.all_valid <=> (v.invalid_count = 0)
        /\ c.all_valid = v.all_valid
        /\ c.should_exit = v.all_valid
        /\ c.invalid_urls = v.invalid_urls
        /\ (/\ Len(job_urls) = 3
            /\ probe_results[1].status = {200}
            /\ probe_results[2].status = {404}
            /\ probe_results[3].error = "TimeoutError")
           => /\ ~v.all_valid
              /\ v.invalid_count = 2
              /\ v.invalid_urls = <<job_urls[2], job_urls[3]>>
              /\ (job_urls[1] \notin {job_urls[2], job_urls[3]}) =>
                    \A k \in DOMAIN v.invalid_urls : v.invalid_urls[k] # job_urls[1]

\* the probes of three different links ended 200, 404 and with a timeout
C25_Witness ==
    /\ check_result # {}
    /\ Len(job_urls) = 3
    /\ Cardinality({job_urls[1], job_urls[2], job_urls[3]}) = 3
    /\ probe_results[1].status = {200}
    /\ probe_results[2].status = {404}
    /\ probe_results[3].error = "TimeoutError"
    /\ \E v \in validation_result : v.invalid_count = 2 /\ ~v.all_valid

\* C26: the step that closes a streamed run's generator before its terminal
\* record changes nothing of the pipeline task (its status, the units it has
\* run, the shared state, the queue it writes to); a closed run's task is
\* never cancelled; and a task that exists when the generator is closed, or
\* is created before it, goes on to its end: it returns or raises.
C26_DisconnectKeepsTask ==
    /\ [][(spc # "closed" /\ spc' = "closed") =>
            /\ spc \in {"opened", "polling", "waiting", "drain"}
            /\ UNCHANGED <<task, events, completed, state, seen_agents,
                           final_response, called, progress_queue, sessions,
                           adk_sessions>>]_vars
    /\ [](spc = "closed" => task \in {"none", "created", "running", "returned", "raised"})
    /\ ((spc = "closed" /\ task # "none") ~> (spc = "closed" /\ TaskDone))

\* a run closed while no unit had completed, whose task has since run every
\* unit and returned; nothing was stored for it
C26_Witness ==
    /\ spc = "closed" /\ task = "returned" /\ kind = "analyze"
    /\ completed = Units
    /\ Len(out) = 1
    /\ Len(progress_queue) > 2
    /\ session_id \notin DOMAIN sessions

\* C27: a unit of a full analysis that runs while another full analysis is
\* in flight runs with the models of its own call's mode: the runner the
\* call iterates was built for that mode, whatever the other call has made
\* of the module's pipeline in the meantime.
C27_ModePerRun ==
    \A r \in DOMAIN runs :
        runs[r].kind = "analyze" =>
            /\ runs[r].used \subseteq {MODEL_CONFIGS[runs[r].mode]}
            /\ runs[r].pc = "running" => runs[r].runner = {MODEL_CONFIGS[runs[r].mode]}

\* a fast-mode analysis has run a stage on its own models after a deep-mode
\* analysis rebuilt the module's pipeline
C27_Witness ==
    /\ DOMAIN runs = Requests
    /\ runs[1].kind = "analyze" /\ runs[1].mode = "fast"
    /\ runs[2].kind = "analyze" /\ runs[2].mode = "deep"
    /\ runs[1].pc = "running" /\ runs[1].stage > 2 /\ runs[2].stage > 1
    /\ runs[1].owner # runner_owner
    /\ runner_models = MODEL_CONFIGS["deep"]
    /\ runs[1].used = {MODEL_CONFIGS["fast"]}

\* C28 (as stated): the /refine endpoint answers 404 exactly when the
\* session was absent or expired when refine checked it, and every failure
\* of the refinement pipeline itself answers 500, whatever the error says.
C28_Original ==
    \A r \in DOMAIN runs :
        (runs[r].kind = "refine" /\ runs[r].pc = "answered") =>
            /\ runs[r].status = 404 <=> ~runs[r].found
            /\ (runs[r].found /\ runs[r].detail # <<>>) => runs[r].status = 500

\* C29: a streamed run whose pipeline task has returned or raised goes on
\* to emit its terminal record; the terminal record that follows the poll
\* loop is emitted only when the task is done and the progress queue is
\* empty; and the poll loop is left only when the task is done.
C29_TerminalAfterTask ==
    /\ ((streamed /\ TaskDone) ~> (spc = "done" /\ Len(Terminals) = 1))
    /\ [][(spc \in {"polling", "waiting"} /\ spc' \notin {"polling", "waiting"}) =>
            TaskDone]_vars
    /\ [][(task # "none" /\ Len(Terminals') > Len(Terminals)) =>
            /\ TaskDone
            /\ progress_queue = <<>>
            /\ progress_queue' = <<>>]_vars
    /\ [](spc \in {"drain", "done"} /\ task # "none" => TaskDone)

\* a streamed analysis whose task raised while progress records were still
\* queued has forwarded them and ended with its error record
C29_Witness ==
    /\ streamed /\ kind = "analyze"
    /\ spc = "done" /\ task = "raised"
    /\ progress_queue = <<>>
    /\ Len(Terminals) = 1 /\ out[Len(out)].type = "error"
    /\ Len(ProgressOut) > 2

\* C30: when two refinements of the same session, both begun while it was
\* valid, have both completed and the session is still stored, its last
\* report is the report of the call that executed its update last.
C30_LastWriteWins ==
    \A r \in DOMAIN runs, q \in DOMAIN runs :
        (/\ runs[r].kind = "refine" /\ runs[q].kind = "refine"
         /\ runs[r].sid = runs[q].sid
         /\ runs[q].order = 1 /\ runs[r].order = 2
         /\ runs[r].sid \in DOMAIN sessions)
        => sessions[runs[r].sid].last_result = RunResult(r)

\* both refinements found the original report, the second request stored
\* its report first and the first request stored its report last
C30_Witness ==
    /\ DOMAIN runs = Requests
    /\ runs[1].kind = "refine" /\ runs[2].kind = "refine"
    /\ runs[1].seen = runs[2].seen /\ runs[1].seen \notin {RunResult(1), RunResult(2)}
    /\ runs[2].order = 1 /\ runs[1].order = 2
    /\ runs[1].status = 200 /\ runs[2].status = 200
    /\ "s1" \in DOMAIN sessions
    /\ sessions["s1"].last_result = RunResult(1)

\* C31: when calculate_yoe returns, every reported role has
\* duration_months >= 1, there are no more roles than matched ranges whose
\* end lies at least one month after their start, and every month of
\* all_months_worked lies in such a range: a range that ends in the month
\* it starts in, or before it, adds no role and no month.
C31_NonPositiveDiscarded ==
    Returned =>
        LET s == summaries[Len(summaries)]
            rs == yoe_text.ranges
            P(i) == ParseRange(rs[i], current_year, current_month)
            positive == {i \in DOMAIN rs : P(i).duration_months > 0} IN
        /\ \A k \in DOMAIN s.role_breakdown : s.role_breakdown[k].duration_months >= 1
        /\ s.num_roles <= Cardinality(positive)
        /\ \A d \in all_months_worked : \E i \in positive : Covers(P(i), d)
        /\ positive = {} => (s.num_roles = 0 /\ all_months_worked = {} /\ s.total_yoe = 0)

\* a text with a range inside January 2018 and a range from September to
\* November 2020: one role, and the three months of the second range
C31_Witness ==
    /\ Returned
    /\ yoe_text.ranges = <<TextRange("jan", 2018, "JAN", 2018),
                           TextRange("Sept", 2020, "Nov", 2020)>>
    /\ summaries[Len(summaries)].num_roles = 1
    /\ all_months_worked = {<<2020, 9>>, <<2020, 10>>, <<2020, 11>>}

\* C32: when calculate_yoe returns a single role, the number of months in
\* all_months_worked is that role's duration_months plus one.
C32_SingleRoleOffByOne ==
    (Returned /\ summaries[Len(summaries)].num_roles = 1) =>
        Cardinality(all_months_worked)
            = summaries[Len(summaries)].role_breakdown[1].duration_months + 1

\* the text "Sept 2020 - Nov 2020" alone: a role of 2 months, 3 months in
\* the set
C32_Witness ==
    /\ Returned
    /\ yoe_text.ranges = <<TextRange("Sept", 2020, "Nov", 2020)>>
    /\ summaries[Len(summaries)].role_breakdown[1].duration_months = 2
    /\ Cardinality(all_months_worked) = 3
    /\ summaries[Len(summaries)].total_yoe = 2

\* C33: the report a run returns is the text of the last event, in event
\* order, that was a final response with text, whichever unit it came from:
\* the step in which a unit gives its final response with text makes that
\* text the report so far, no other step of the run changes it, and the
\* report is the Formatter's only if the Formatter gave a final response
\* with text.
C33_LastFinalText ==
    /\ [][task = "running" =>
            /\ \A u \in Units :
                  (u \in completed' /\ u \notin completed /\ u \notin quiet)
                      => final_response' = u
            /\ (completed' = completed \/ (completed' \ completed) \subseteq quiet)
                      => final_response' = final_response]_vars
    /\ [](final_response \in {"formatter", "formatter_refinement"}
            => final_response \in completed \ quiet)
    /\ [](task = "returned" /\ (Units \ quiet) # {}
            => final_response \in completed \ quiet)

\* a full analysis whose Formatter answered without text has returned the
\* text of another unit as its report
C33_Witness ==
    /\ kind = "analyze" /\ task = "returned" /\ spc = "done"
    /\ "formatter" \in completed \cap quiet
    /\ final_response \in Units \ {"formatter"}
    /\ outcome # <<>> /\ outcome[Len(outcome)].type = "return"
    /\ outcome[Len(outcome)].result = final_response

\* C34: a run none of whose units gives a final response with text returns
\* the placeholder and does not fail: the caller gets it as the result (the
\* terminal result record of a stream, the return value of a call), and a
\* full analysis stores it as the session's last report.
C34_PlaceholderIsSuccess ==
    (Units \subseteq quiet /\ task \in {"returned", "raised"} /\ completed = Units) =>
        /\ task = "returned"
        /\ final_response = NO_RESPONSE
        /\ (spc = "done" /\ streamed) =>
              /\ out[Len(out)].type = "result"
              /\ out[Len(out)].result = NO_RESPONSE
        /\ (spc = "done" /\ ~streamed) =>
              /\ outcome[Len(outcome)].type = "return"
              /\ outcome[Len(outcome)].result = NO_RESPONSE
        /\ (spc = "done" /\ kind = "analyze") =>
              /\ session_id \in DOMAIN sessions
              /\ sessions[session_id].last_result = NO_RESPONSE

\* a streamed full analysis without any text has ended with a result record
\* holding the placeholder, which is the stored report
C34_Witness ==
    /\ kind = "analyze" /\ streamed /\ spc = "done"
    /\ Units \subseteq quiet /\ completed = Units
    /\ out[Len(out)].type = "result" /\ out[Len(out)].result = NO_RESPONSE
    /\ sessions[session_id].last_result = NO_RESPONSE

\* C35: the first record of analyze_stream carries the run's session id
\* while the Session Store holds no session under it; the store first holds
\* one in the step that emits the result record, the task having returned;
\* until then the session check of a refine on that id finds nothing.
C35_AnnouncedBeforeCreated ==
    /\ [](kind = "analyze" /\ streamed /\ out # <<>> =>
            /\ out[1].type = "progress" /\ out[1].session_id = session_id
            /\ spc # "done" =>
                  /\ session_id \notin DOMAIN sessions
                  /\ (lastOp.op = "get" /\ lastOp.id = session_id) => lastOp.ret = None)
    /\ [][(kind = "analyze" /\ streamed /\ session_id \notin DOMAIN sessions
           /\ session_id \in DOMAIN sessions') =>
            /\ task = "returned"
            /\ spc' = "done"
            /\ out'[Len(out')].type = "result"]_vars

\* a refine on the announced id has found no session while the pipeline
\* task had already returned and the stream was draining its queue
C35_Witness ==
    /\ kind = "analyze" /\ streamed /\ spc = "drain" /\ task = "returned"
    /\ out[1].session_id = session_id
    /\ lastOp.op = "get" /\ lastOp.id = session_id /\ lastOp.ret = None
    /\ session_id \notin DOMAIN sessions

\* C36: a streamed full analysis whose generator is closed before its
\* terminal record leaves the Session Store as it was, whatever its
\* pipeline task does afterwards: a streamed analysis changes the store
\* only in the step that emits its result record, and while the run is
\* closed no session is held under its id.
C36_ClosedRunStoresNothing ==
    /\ [][(kind = "analyze" /\ streamed /\ sessions' # sessions) =>
            (spc = "drain" /\ spc' = "done")]_vars
    /\ [][spc = "closed" => (spc' = "closed" /\ sessions' = sessions)]_vars
    /\ [](kind = "analyze" /\ spc = "closed" => session_id \notin DOMAIN sessions)

\* a full analysis closed while records were still queued, whose task has
\* returned the Formatter's report: the store holds the earlier session only
C36_Witness ==
    /\ kind = "analyze" /\ spc = "closed" /\ task = "returned"
    /\ final_response = "formatter"
    /\ Len(out) > 1 /\ progress_queue # <<>>
    /\ DOMAIN sessions = {"s1"}

\* C37: a refinement whose pipeline raises leaves the session as it found
\* it: once its task exists, a refinement changes the Session Store only
\* after the task has returned, and when the task has raised the session
\* under the id still has the report, updated_at, resume_text and
\* created_at it had before the call.
C37_FailedRefineKeepsSession ==
    /\ [][(kind = "refine" /\ task # "none" /\ sessions' # sessions) =>
            task = "returned"]_vars
    /\ [](kind = "refine" /\ task = "raised" =>
            /\ session_id \in DOMAIN sessions
            /\ sessions[session_id].last_result = PriorSession.last_result
            /\ sessions[session_id].updated_at = PriorSession.updated_at
            /\ sessions[session_id].resume_text = PriorSession.resume_text
            /\ sessions[session_id].created_at = PriorSession.created_at)

\* a streamed refinement that failed after its first batch, time having
\* passed, has ended with an error record and the session is as before
C37_Witness ==
    /\ kind = "refine" /\ streamed /\ task = "raised" /\ spc = "done"
    /\ parallel_batch_1_ref \subseteq completed
    /\ now > Ttl
    /\ out[Len(out)].type = "error"
    /\ sessions[session_id] = PriorSession

\* C38: a create step on an id that is already held replaces the session:
\* the session then held under the id has an empty last report, no
\* metadata, and created_at and updated_at equal to the current time,
\* whatever the previous session held, so it is valid for a full TTL from
\* now, also when the previous session would have expired before that.
C38_CreateReplaces ==
    [][(lastOp'.op = "create" /\ lastOp'.prev # {}) =>
          LET id == lastOp'.id IN
          /\ sessions[id] \in lastOp'.prev
          /\ id \in DOMAIN sessions'
          /\ sessions'[id].last_result = ""
          /\ sessions'[id].metadata = {}
          /\ sessions'[id].created_at = now
          /\ sessions'[id].updated_at = now
          /\ get_result(sessions', id, now + Ttl) = id
          /\ get_result(sessions', id, now + Ttl + 1) = None]_vars

\* a create has replaced a valid session that held a report and metadata
\* and was created earlier: the new session has neither and is younger
C38_Witness ==
    /\ lastOp.op = "create"
    /\ \E old \in lastOp.prev :
          /\ old.last_result \in Reports
          /\ old.metadata # {}
          /\ old.created_at < now
          /\ ~expired(old, now)
          /\ sessions[lastOp.id].last_result = ""
          /\ sessions[lastOp.id].metadata = {}
          /\ sessions[lastOp.id].created_at = now

\* C39: what check_job_urls returns has should_exit true exactly when
\* all_valid is true, and all_valid true exactly when at least one link was
\* extracted and every probe ended with status 200; on a text without links
\* no probe is made, validate_urls_async is not called and all_valid and
\* should_exit are false.
C39_ExitIffAllValid ==
    \A c \in check_result :
        /\ c.should_exit <=> c.all_valid
        /\ c.all_valid <=>
              /\ Len(job_urls) >= 1
              /\ \A i \in DOMAIN job_urls : probe_results[i].status = {200}
        /\ job_urls = <<>> =>
              /\ probe_results = <<>>
              /\ validation_result = {}
              /\ ~c.all_valid /\ ~c.should_exit
              /\ c.feedback = <<"No URLs found.">>

\* check_job_urls has returned for a text without links
C39_Witness ==
    /\ job_urls = <<>>
    /\ probe_results = <<>>
    /\ check_result = {NoUrlsFound}
    /\ \A c \in check_result : ~c.all_valid /\ ~c.should_exit

====
